---- MODULE Spec2Model ----
(***************************************************************************)
(* Model of fmlib's task lifecycle (fmlib/models/tasks.py): the Task and   *)
(* TaskStatus documents, the collections they are stored in ("task",       *)
(* "task_archive", "task_status", "task_status_archive"), the Task          *)
(* operations that read and write them, the embedded task requests          *)
(* (fmlib/models/requests.py) and the timetable queries                     *)
(* (fmlib/models/timetable.py).                                             *)
(*                                                                          *)
(* A state holds the caller's in-memory Task object (mem), the document     *)
(* store (db), a record of the operation that produced the state (last) and *)
(* the timetable under query. Every operation is a pure operator from       *)
(* (task object, store) to (task object, store, raised exception); an       *)
(* action applies one operator.                                             *)
(*                                                                          *)
(* Optional values (a blank field, None) are sequences of length 0 or 1.    *)
(* Durations are integers in units of 1/10000; times are whole seconds.     *)
(*                                                                          *)
(* Spec: every store access succeeds and every stored document validates.   *)
(* SpecOutage: store accesses of a call may raise                           *)
(* ServerSelectionTimeoutError. SpecLegacy and SpecStored: the store holds  *)
(* documents that fail validation. SpecTimetable: get_time on a             *)
(* dispatchable graph. SpecEdit and SpecTwo: constraint edits by one and by *)
(* two callers. SpecLookup: actions, progress records and requests.         *)
(* SpecFlags and SpecProgress: the flags and the progress tracker of a      *)
(* status. SpecParents: tasks that name a parent task. SpecMessages: the    *)
(* callbacks and the receive queue of the MQTT and Zyre interfaces          *)
(* (fmlib/api), held in the variable api.                                   *)
(***************************************************************************)
EXTENDS Integers, Sequences, FiniteSets, TLC

VARIABLES mem, db, last, terminated, timetable, mem2, default_tasks, api

vars == <<mem, db, last, terminated, timetable, mem2, default_tasks, api>>

----------------------------------------------------------------------------
(* Bounds of the model *)

\* number of task ids create_new / from_payload can hand out
MaxTasks == 2
\* number of plan stages update_plan may append to one task
MaxPlan == 2
\* number of operations in one behaviour
MaxOps == 4

TaskIds == 1..MaxTasks

None == << >>
Some(x) == <<x>>

----------------------------------------------------------------------------
(* Values *)

UNALLOCATED == "UNALLOCATED"
ALLOCATED == "ALLOCATED"
PLANNED == "PLANNED"
SCHEDULED == "SCHEDULED"
DISPATCHED == "DISPATCHED"
RUNNING == "RUNNING"
FINISHED == "FINISHED"
CANCELED == "CANCELED"
ABORTED == "ABORTED"
FAILED == "FAILED"
OVERDUE == "OVERDUE"
DEPRECATED == "DEPRECATED"

archived_status == {FINISHED, CANCELED, ABORTED, FAILED, OVERDUE, DEPRECATED}

in_timetable == {PLANNED, ALLOCATED, SCHEDULED, DISPATCHED, RUNNING}

TaskStatusConst == {UNALLOCATED} \cup in_timetable \cup archived_status

\* TimeStamp(): the time of the call; the model's clock does not advance
Now == 0
\* timedelta(minutes=10), in seconds
TenMinutes == 600

\* EstimatedDuration(): mean and variance are FloatFields without a default
EstimatedDuration_new == [mean |-> None, variance |-> None]

\* round(x, 3) on a value given in units of 1/10000 (no input is an exact tie)
round3(x) == ((x + 5) \div 10) * 10

\* EstimatedDuration.update
EstimatedDuration_update(e, mean, variance) ==
    [e EXCEPT !.mean = Some(round3(mean)), !.variance = Some(round3(variance))]

\* TimepointConstraint.update
TimepointConstraint_update_Ordered(c, earliest_time, latest_time) ==
    [c EXCEPT !.earliest_time = Some(IF earliest_time <= latest_time THEN earliest_time
                                     ELSE latest_time),
              !.latest_time = Some(IF earliest_time <= latest_time THEN latest_time
                                   ELSE earliest_time)]

\* TimepointConstraint.update
TimepointConstraint_update(c, earliest_time, latest_time) ==
    [c EXCEPT !.earliest_time = Some(earliest_time), !.latest_time = Some(latest_time)]

\* TaskStatus(task_id=...): the field defaults. Every document carries in
\* "invalid" the names of its fields whose stored values fail validation (a
\* document written under an older schema); a newly built object has none.
TaskStatus_new(task_id) ==
    [task_id |-> task_id, status |-> UNALLOCATED, delayed |-> FALSE,
     early |-> FALSE, paused |-> FALSE, recovery_method |-> None,
     progress |-> None, invalid |-> {}]

\* TaskRequest(request_id=..., earliest_start_time=..., latest_start_time=...):
\* no task id is registered with it yet
TaskRequest_new(request_id, earliest, latest) ==
    [request_id |-> request_id, task_ids |-> << >>,
     earliest_start_time |-> earliest, latest_start_time |-> latest, invalid |-> {}]

\* Task(task_id=..., status=..., constraints=...) as create_new builds it
Task_new(task_id, status) ==
    [task_id |-> task_id,
     status |-> status,
     assigned_robots |-> << >>,
     plan |-> << >>,
     start |-> [earliest_time |-> Some(Now), latest_time |-> Some(Now + TenMinutes)],
     work_time |-> EstimatedDuration_new,
     travel_time |-> EstimatedDuration_new,
     alternative_timeslot |-> None,
     schedule |-> None,
     request |-> None,
     parent_task_id |-> None,
     invalid |-> {}]

----------------------------------------------------------------------------
(* The document store: each collection maps the ids present to documents *)

Put(f, k, v) == [x \in (DOMAIN f) \cup {k} |-> IF x = k THEN v ELSE f[x]]
Del(f, k) == [x \in (DOMAIN f) \ {k} |-> f[x]]
Empty == [x \in {} |-> 0]

EmptyDb == [task |-> Empty, task_archive |-> Empty,
            task_status |-> Empty, task_status_archive |-> Empty,
            task_request |-> Empty, task_request_archive |-> Empty,
            action |-> Empty, action_archive |-> Empty,
            action_progress |-> Empty, action_progress_archive |-> Empty]

\* ---- actions and their progress records; lookups that fall back to the
\* ---- archive collections

\* Action(action_id=..., action_type=...)
Action_new(action_id, action_type) ==
    [action_id |-> action_id, action_type |-> action_type]

\* MongoModel.save() of an Action: replace_one(..., upsert=True) in "action"
Action_save(a, d) == [d EXCEPT !.action = Put(@, a.action_id, a)]

\* Action.archive without the delete(): the live document stays
Action_archive_KeepsLive(a, d) ==
    [d EXCEPT !.action_archive = Put(@, a.action_id, a)]

\* Action.archive: save in "action_archive", delete from "action"
Action_archive(a, d) ==
    [d EXCEPT !.action_archive = Put(@, a.action_id, a),
              !.action = Del(@, a.action_id)]

\* Action.create_new
Action_create_new(d, action_id, action_type, save_in_db) ==
    LET a == Action_new(action_id, action_type)
    IN  IF save_in_db THEN Action_save(a, d) ELSE d

\* the outcome of a lookup: the document found, or DoesNotExist
Found(x) == [result |-> Some(x), raised |-> ""]
NotFound == [result |-> None, raised |-> "DoesNotExist"]

\* ActionQuerySet.get_action / ActionProgressQuerySet.get_action_progress:
\* self.get({'_id': id}) on the collection the model points at
objects_get(coll, id) == IF id \in DOMAIN coll THEN Found(coll[id]) ELSE NotFound

\* Action.get_archived_action
Action_get_archived_action(d, action_id) == objects_get(d.action_archive, action_id)

\* get_action that looks in the live collection only
Action_get_action_LiveOnly(d, action_id) == objects_get(d.action, action_id)

\* Action.get_action: the live collection, on DoesNotExist the archive
Action_get_action(d, action_id) ==
    IF objects_get(d.action, action_id).raised = "DoesNotExist"
    THEN Action_get_archived_action(d, action_id)
    ELSE objects_get(d.action, action_id)

\* ActionQuerySet.by_action_type: raw({"type": type}) matches the documents
\* that have a field "type" with that value
by_action_type(coll, type) ==
    {coll[i] : i \in {j \in DOMAIN coll : "type" \in DOMAIN coll[j] /\ coll[j].type = type}}

\* Action.get_actions(type=None)
Action_get_actions(d, type) ==
    IF type # None THEN by_action_type(d.action, type[1])
    ELSE {d.action[i] : i \in DOMAIN d.action}

\* Action.get_archived_actions(type=None)
Action_get_archived_actions(d, type) ==
    IF type # None THEN by_action_type(d.action_archive, type[1])
    ELSE {d.action_archive[i] : i \in DOMAIN d.action_archive}

\* "for a in actions: a.archive()"
RECURSIVE archive_each(_, _)
archive_each(actions, d) ==
    IF actions = {} THEN d
    ELSE LET a == CHOOSE x \in actions : TRUE
         IN  archive_each(actions \ {a}, Action_archive(a, d))

\* ActionProgress(action_id): status defaults to ActionStatus.PLANNED
ActionProgress_new(action_id) ==
    [action_id |-> action_id, status |-> "PLANNED",
     start_time |-> None, finish_time |-> None]

\* MongoModel.save() of an ActionProgress, in "action_progress"
ActionProgress_save(p, d) == [d EXCEPT !.action_progress = Put(@, p.action_id, p)]

\* ActionProgress.archive: the action it belongs to is archived when
\* Action.get_action finds it; then save in "action_progress_archive", delete
\* from "action_progress"
ActionProgress_archive(p, d) ==
    LET r  == Action_get_action(d, p.action_id)
        d1 == IF r.raised = "" THEN Action_archive(r.result[1], d) ELSE d
    IN  [d1 EXCEPT !.action_progress_archive = Put(@, p.action_id, p),
                   !.action_progress = Del(@, p.action_id)]

\* ActionProgress.get_archived_action_progress
get_archived_action_progress(d, action_id) ==
    objects_get(d.action_progress_archive, action_id)

\* ActionProgress.get_action_progress: the live collection, on DoesNotExist
\* the archive
get_action_progress(d, action_id) ==
    IF objects_get(d.action_progress, action_id).raised = "DoesNotExist"
    THEN get_archived_action_progress(d, action_id)
    ELSE objects_get(d.action_progress, action_id)

\* MongoModel.save() of a TaskStatus: replace_one(..., upsert=True) in "task_status"
TaskStatus_save(s, d) == [d EXCEPT !.task_status = Put(@, s.task_id, s)]

\* "for action_progress in self.progress.actions: ... action_progress.archive()":
\* the comparison of the record with ActionStatus.FINISHED never holds, so
\* every record is archived
RECURSIVE archive_progress(_, _)
archive_progress(actions, d) ==
    IF actions = << >> THEN d
    ELSE archive_progress(Tail(actions), ActionProgress_archive(Head(actions), d))

\* TaskStatus.archive: the progress records are archived, then save in
\* "task_status_archive", delete from "task_status"
TaskStatus_archive(s, d) ==
    LET d1 == IF s.progress # None THEN archive_progress(s.progress[1].actions, d) ELSE d
    IN  [d1 EXCEPT !.task_status_archive = Put(@, s.task_id, s),
                   !.task_status = Del(@, s.task_id)]

\* TaskRequest.save: replace_one(..., upsert=True) in "task_request"
TaskRequest_save(q, d) == [d EXCEPT !.task_request = Put(@, q.request_id, q)]

\* Task.save: save(cascade=True) saves the referenced TaskRequest and
\* TaskStatus (in field order), then upserts the task
Task_save(t, d) ==
    LET d0 == IF t.request # None THEN TaskRequest_save(t.request[1], d) ELSE d
        d1 == IF t.status # None THEN TaskStatus_save(t.status[1], d0) ELSE d0
    IN  [d1 EXCEPT !.task = Put(@, t.task_id, t)]

\* Task.archive without the delete(): the live document stays
Task_archive_NoDelete(t, d) ==
    [d EXCEPT !.task_archive = Put(@, t.task_id, t)]

\* Task.archive: save in "task_archive", delete from "task"
Task_archive(t, d) ==
    [d EXCEPT !.task_archive = Put(@, t.task_id, t),
              !.task = Del(@, t.task_id)]

\* the result of an operation: the task object, the store, the exception raised ("" = none)
Ret(t, d) == [t |-> t, d |-> d, raised |-> ""]
Raise(t, d, exc) == [t |-> t, d |-> d, raised |-> exc]

----------------------------------------------------------------------------
(* Task operations *)

\* "if not self.status: self.status = TaskStatus(task_id=self.task_id)"
ensure_status(t) ==
    IF t.status = None THEN [t EXCEPT !.status = Some(TaskStatus_new(t.task_id))] ELSE t

\* update_status that returns early when the object already holds the status
update_status_SkipUnchanged(t, d, status) ==
    LET t1 == ensure_status(t)
        t2 == [t1 EXCEPT !.status[1].status = status]
    IN  IF t1.status[1].status = status
        THEN Ret(t1, d)
        ELSE IF status \in archived_status
             THEN Ret(t2, Task_archive(t2, TaskStatus_archive(t2.status[1], d)))
             ELSE Ret(t2, Task_save(t2, TaskStatus_save(t2.status[1], d)))

\* Task.update_status
update_status(t, d, status) ==
    LET t1 == ensure_status(t)
        t2 == [t1 EXCEPT !.status[1].status = status]
    IN  IF status \in archived_status
        THEN Ret(t2, Task_archive(t2, TaskStatus_archive(t2.status[1], d)))
        ELSE Ret(t2, Task_save(t2, TaskStatus_save(t2.status[1], d)))

\* assign_robots that gives plan[0] the last robot of the list instead of the first
assign_robots_LastRobot(t, d, robot_ids, save_in_db) ==
    LET t1 == [t EXCEPT !.assigned_robots = robot_ids]
    IN  IF Len(robot_ids) = 0 \/ Len(t1.plan) = 0
        THEN Raise(t1, d, "IndexError")
        ELSE LET t2 == [t1 EXCEPT !.plan[1].robot = Some(robot_ids[Len(robot_ids)])]
             IN  IF save_in_db
                 THEN update_status(t2, Task_save(t2, d), ALLOCATED)
                 ELSE Ret(t2, d)

\* Task.assign_robots: plan[0] of an empty plan raises IndexError after
\* assigned_robots has been set
assign_robots(t, d, robot_ids, save_in_db) ==
    LET t1 == [t EXCEPT !.assigned_robots = robot_ids]
    IN  IF Len(robot_ids) = 0 \/ Len(t1.plan) = 0
        THEN Raise(t1, d, "IndexError")
        ELSE LET t2 == [t1 EXCEPT !.plan[1].robot = Some(robot_ids[1])]
             IN  IF save_in_db
                 THEN update_status(t2, Task_save(t2, d), ALLOCATED)
                 ELSE Ret(t2, d)

\* unassign_robots that keeps the travel time estimate
unassign_robots_KeepTravelTime(t, d) ==
    LET t1 == [t EXCEPT !.assigned_robots = << >>]
        d1 == Task_save(t1, d)
    IN  IF Len(t1.plan) = 0
        THEN Raise(t1, d1, "IndexError")
        ELSE LET t2 == [t1 EXCEPT !.plan[1].robot = None]
             IN  update_status(t2, Task_save(t2, d1), UNALLOCATED)

\* Task.unassign_robots: the travel_time setter saves before plan[0] is touched
unassign_robots(t, d) ==
    LET t1 == [t EXCEPT !.assigned_robots = << >>,
                        !.travel_time = EstimatedDuration_new]
        d1 == Task_save(t1, d)
    IN  IF Len(t1.plan) = 0
        THEN Raise(t1, d1, "IndexError")
        ELSE LET t2 == [t1 EXCEPT !.plan[1].robot = None]
             IN  update_status(t2, Task_save(t2, d1), UNALLOCATED)

\* Task.pause
pause(t, d) ==
    IF t.status = None
    THEN Raise(t, d, "AttributeError")
    ELSE LET t1 == [t EXCEPT !.status[1].paused = TRUE]
         IN  Ret(t1, Task_save(t1, d))

\* Task.continue_
continue_(t, d) ==
    IF t.status = None
    THEN Raise(t, d, "AttributeError")
    ELSE LET t1 == [t EXCEPT !.status[1].paused = FALSE]
         IN  Ret(t1, Task_save(t1, d))

\* the delayed setter: only the standalone status is saved
set_delayed(t, d, boolean) ==
    IF t.status = None
    THEN Raise(t, d, "AttributeError")
    ELSE LET t1 == [t EXCEPT !.status[1].delayed = boolean]
         IN  Ret(t1, TaskStatus_save(t1.status[1], d))

\* the early setter: only the standalone status is saved
set_early(t, d, boolean) ==
    IF t.status = None
    THEN Raise(t, d, "AttributeError")
    ELSE LET t1 == [t EXCEPT !.status[1].early = boolean]
         IN  Ret(t1, TaskStatus_save(t1.status[1], d))

\* Task.set_recovery_method
set_recovery_method(t, d, method) ==
    LET t1 == ensure_status(t)
        t2 == [t1 EXCEPT !.status[1].recovery_method = Some(method)]
    IN  Ret(t2, Task_save(t2, d))

\* Task.clear_recovery_method: "self.status in TaskStatus.archived_status"
\* compares the TaskStatus object with the status constants, which never
\* holds, so the task is always saved
clear_recovery_method(t, d) ==
    LET t1 == ensure_status(t)
        t2 == [t1 EXCEPT !.status[1].recovery_method = None]
    IN  Ret(t2, Task_save(t2, d))

\* TaskProgress() after initialize(action_id, task_plan): one ActionProgress
\* for each action of the first stage of the plan
TaskProgress_initialize(action_id, task_plan) ==
    [current_action |-> Some(action_id), current_pose |-> None,
     actions |-> [k \in 1..Len(task_plan[1].actions) |->
                     ActionProgress_new(task_plan[1].actions[k])]]

\* TaskProgress._get_action_index: 0 stands for None. The loop keeps the last
\* record with the id, and list.index gives the first record equal to it.
get_action_index(actions, action_id) ==
    LET hits == {k \in 1..Len(actions) : actions[k].action_id = action_id}
        a    == actions[CHOOSE k \in hits : \A j \in hits : j <= k]
    IN  IF hits = {} THEN 0
        ELSE CHOOSE k \in 1..Len(actions) :
                /\ actions[k] = a
                /\ \A j \in 1..(k - 1) : actions[j] # a

\* a sequence without its element at position idx: list.pop(idx)
pop(seq, idx) == SubSeq(seq, 1, idx - 1) \o SubSeq(seq, idx + 1, Len(seq))

\* a sequence with x put at position idx: list.insert(idx, x)
insert(seq, idx, x) == SubSeq(seq, 1, idx - 1) \o <<x>> \o SubSeq(seq, idx, Len(seq))

\* the record update_action_progress writes: the new status, and the start
\* and finish time when the keyword arguments carry one
progress_reported(a, action_status, kwargs) ==
    [a EXCEPT !.status = action_status,
              !.start_time = IF kwargs.start_time # None THEN kwargs.start_time ELSE @,
              !.finish_time = IF kwargs.finish_time # None THEN kwargs.finish_time ELSE @]

\* update_action_progress that appends the record at the end of the list
update_action_progress_Append(actions, idx, action_status, kwargs) ==
    Append(pop(actions, idx), progress_reported(actions[idx], action_status, kwargs))

\* TaskProgress.update_action_progress, for the index idx >= 1 of the record:
\* the record is popped, changed and inserted at the place it was taken from
update_action_progress(actions, idx, action_status, kwargs) ==
    insert(pop(actions, idx), idx, progress_reported(actions[idx], action_status, kwargs))

\* TaskProgress.update that leaves current_action as it is
TaskProgress_update_KeepsCurrent(p, d, action_id, action_status, robot_pose, kwargs) ==
    LET p1  == [p EXCEPT !.current_pose = Some(robot_pose)]
        idx == get_action_index(p.actions, action_id)
        p2  == [p1 EXCEPT !.actions =
                              update_action_progress(p.actions, idx, action_status, kwargs)]
    IN  IF idx = 0 THEN [p |-> p1, d |-> d, raised |-> "TypeError"]
        ELSE IF action_status # FINISHED THEN [p |-> p2, d |-> d, raised |-> ""]
        ELSE [p |-> p2, d |-> ActionProgress_archive(p2.actions[idx], d), raised |-> ""]

\* TaskProgress.update: pop(None) raises TypeError when no record has the id;
\* a FINISHED record is archived and the next action becomes the current one
TaskProgress_update(p, d, action_id, action_status, robot_pose, kwargs) ==
    LET p1  == [p EXCEPT !.current_pose = Some(robot_pose)]
        idx == get_action_index(p.actions, action_id)
        p2  == [p1 EXCEPT !.actions =
                              update_action_progress(p.actions, idx, action_status, kwargs)]
        now == get_action_index(p2.actions, action_id)
    IN  IF idx = 0 THEN [p |-> p1, d |-> d, raised |-> "TypeError"]
        ELSE IF action_status # FINISHED THEN [p |-> p2, d |-> d, raised |-> ""]
        ELSE [p |-> IF now + 1 <= Len(p2.actions)
                    THEN [p2 EXCEPT !.current_action = Some(p2.actions[now + 1].action_id)]
                    ELSE p2,
              d |-> ActionProgress_archive(p2.actions[now], d),
              raised |-> ""]

\* the ActionProgress records that save(cascade=True) of a status saves
RECURSIVE save_progress(_, _)
save_progress(actions, d) ==
    IF actions = << >> THEN d
    ELSE save_progress(Tail(actions), ActionProgress_save(Head(actions), d))

\* TaskStatus.save(cascade=True): the progress records, then the status
TaskStatus_save_cascade(s, d) ==
    TaskStatus_save(s, IF s.progress # None THEN save_progress(s.progress[1].actions, d)
                       ELSE d)

\* the part of TaskStatus.update_progress after refresh_from_db
update_progress_refreshed(t, d, action_id, action_status, robot_pose, kwargs) ==
    LET fresh == t.status[1].progress = None
        s1 == IF fresh
              THEN [t.status[1] EXCEPT !.progress =
                                           Some(TaskProgress_initialize(action_id, t.plan))]
              ELSE t.status[1]
        d1 == IF fresh THEN TaskStatus_save(s1, d) ELSE d
        u  == TaskProgress_update(s1.progress[1], d1, action_id, action_status,
                                  robot_pose, kwargs)
        s2 == [s1 EXCEPT !.progress = Some(u.p)]
    IN  IF fresh /\ t.plan = << >>
        THEN Raise([t EXCEPT !.status[1].progress =
                                 Some([current_action |-> Some(action_id),
                                       current_pose |-> None, actions |-> << >>])],
                   d, "IndexError")
        ELSE IF u.raised # "" THEN Raise([t EXCEPT !.status = Some(s2)], u.d, u.raised)
        ELSE Ret([t EXCEPT !.status = Some(s2)], TaskStatus_save_cascade(s2, u.d))

\* update_progress that starts from a new TaskStatus instead of the stored one
update_progress_FreshStatus(t, d, action_id, action_status, robot_pose, kwargs) ==
    update_progress_refreshed([t EXCEPT !.status = Some(TaskStatus_new(t.task_id))],
                              d, action_id, action_status, robot_pose, kwargs)

\* Task.update_progress -> TaskStatus.update_progress: refresh_from_db reloads
\* the status from "task_status" (DoesNotExist when it is not there)
update_progress(t, d, action_id, action_status, robot_pose, kwargs) ==
    IF t.status = None THEN Raise(t, d, "AttributeError")
    ELSE IF t.task_id \notin DOMAIN d.task_status THEN Raise(t, d, "DoesNotExist")
    ELSE update_progress_refreshed([t EXCEPT !.status = Some(d.task_status[t.task_id])],
                                   d, action_id, action_status, robot_pose, kwargs)

\* update_plan that puts the new stage first
update_plan_Prepend(t, d, task_plan) ==
    LET t1 == [t EXCEPT !.plan = <<task_plan>> \o @]
        r  == update_status(t1, d, PLANNED)
    IN  Ret(r.t, Task_save(r.t, r.d))

\* Task.update_plan
update_plan(t, d, task_plan) ==
    LET t1 == [t EXCEPT !.plan = Append(@, task_plan)]
        r  == update_status(t1, d, PLANNED)
    IN  Ret(r.t, Task_save(r.t, r.d))

\* Task.schedule_task
schedule_task(t, d, departure_time, start_time, finish_time) ==
    LET t1 == [t EXCEPT !.schedule = Some([departure_time |-> departure_time,
                                           start_time |-> start_time,
                                           finish_time |-> finish_time])]
        r  == update_status(t1, d, SCHEDULED)
    IN  Ret(r.t, Task_save(r.t, r.d))

\* update_work_time that saves whatever save_in_db says
update_work_time_AlwaysSaves(t, d, mean, variance, save_in_db) ==
    LET t1 == [t EXCEPT !.work_time = EstimatedDuration_update(@, mean, variance)]
    IN  Ret(t1, Task_save(t1, d))

\* Task.update_work_time
update_work_time(t, d, mean, variance, save_in_db) ==
    LET t1 == [t EXCEPT !.work_time = EstimatedDuration_update(@, mean, variance)]
    IN  Ret(t1, IF save_in_db THEN Task_save(t1, d) ELSE d)

\* Task.update_travel_time
update_travel_time(t, d, mean, variance, save_in_db) ==
    LET t1 == [t EXCEPT !.travel_time = EstimatedDuration_update(@, mean, variance)]
    IN  Ret(t1, IF save_in_db THEN Task_save(t1, d) ELSE d)

\* Task.update_start_constraint
update_start_constraint(t, d, earliest_time, latest_time, save_in_db) ==
    LET t1 == [t EXCEPT !.start = TimepointConstraint_update(@, earliest_time, latest_time)]
    IN  Ret(t1, IF save_in_db THEN Task_save(t1, d) ELSE d)

\* TimepointConstraint(): both times unset
TimepointConstraint_new == [earliest_time |-> None, latest_time |-> None]

\* AlternativeTimeslot(): start and finish unset
AlternativeTimeslot_new == [start |-> None, finish |-> None]

\* update_alternative_start_time that writes the window into the primary
\* start constraint as well
update_alternative_start_time_Both(t, d, earliest_time, latest_time, save_in_db) ==
    LET t1 == [t EXCEPT !.alternative_timeslot =
                          Some([AlternativeTimeslot_new EXCEPT !.start =
                                  Some(TimepointConstraint_update(TimepointConstraint_new,
                                                                  earliest_time, latest_time))]),
                        !.start = TimepointConstraint_update(@, earliest_time, latest_time)]
    IN  Ret(t1, IF save_in_db THEN Task_save(t1, d) ELSE d)

\* Task.update_alternative_start_time
update_alternative_start_time(t, d, earliest_time, latest_time, save_in_db) ==
    LET t1 == IF t.alternative_timeslot = None
              THEN [t EXCEPT !.alternative_timeslot =
                       Some([AlternativeTimeslot_new EXCEPT !.start = Some(TimepointConstraint_new)])]
              ELSE t
    IN  IF t1.alternative_timeslot[1].start = None
        THEN Raise(t1, d, "AttributeError")
        ELSE LET t2 == [t1 EXCEPT !.alternative_timeslot[1].start[1] =
                                     TimepointConstraint_update(@, earliest_time, latest_time)]
             IN  Ret(t2, IF save_in_db THEN Task_save(t2, d) ELSE d)

\* a save that leaves a stored task it did not read as it is
save_KeepsStored(t, d) ==
    Ret(t, IF t.task_id \in DOMAIN d.task THEN d ELSE Task_save(t, d))

\* Task.save, called directly
save(t, d) == Ret(t, Task_save(t, d))

\* Task.archive that only copies the task into the archive
archive_KeepsLive(t, d) == Ret(t, Task_archive_NoDelete(t, d))

\* Task.archive, called directly
archive(t, d) == Ret(t, Task_archive(t, d))

\* TaskManager.get_task on the live collection: None stands for DoesNotExist
\* (the document read is valid, so validate_model returns it as it is)
get_task(d, task_id) ==
    IF task_id \in DOMAIN d.task THEN Some(d.task[task_id]) ELSE None

\* Task.get_archived_task: get_task with the collection switched to "task_archive"
get_archived_task(d, task_id) ==
    IF task_id \in DOMAIN d.task_archive THEN Some(d.task_archive[task_id]) ELSE None

\* TaskStatusManager.get_task_status on the live / archive collection
get_task_status(d, task_id) ==
    IF task_id \in DOMAIN d.task_status THEN Some(d.task_status[task_id]) ELSE None

get_archived_task_status(d, task_id) ==
    IF task_id \in DOMAIN d.task_status_archive
    THEN Some(d.task_status_archive[task_id]) ELSE None

\* Task.create_new without a task_id: TaskStatus.create_new saves the status, then
\* the task is built around it and saved
create_new(d, task_id) ==
    LET s == TaskStatus_new(task_id)
        t == Task_new(task_id, Some(s))
    IN  Ret(t, Task_save(t, TaskStatus_save(s, d)))

\* Task.from_request that leaves the task to be saved by the caller
from_request_Unsaved(d, task_id, request) ==
    LET s == TaskStatus_new(task_id)
        t == [Task_new(task_id, Some(s)) EXCEPT
                !.start = [earliest_time |-> Some(request.earliest_start_time),
                           latest_time |-> Some(request.latest_start_time)],
                !.request = Some(request)]
    IN  Ret(t, TaskStatus_save(s, d))

\* Task.from_request(request): create_new with the request and a start
\* constraint taken from the request's start window
from_request(d, task_id, request) ==
    LET s == TaskStatus_new(task_id)
        t == [Task_new(task_id, Some(s)) EXCEPT
                !.start = [earliest_time |-> Some(request.earliest_start_time),
                           latest_time |-> Some(request.latest_start_time)],
                !.request = Some(request)]
    IN  Ret(t, Task_save(t, TaskStatus_save(s, d)))

\* Task.from_payload for a payload that carries no status
from_payload(d, task_id, save_in_db) ==
    LET t == Task_new(task_id, None)
    IN  IF save_in_db THEN update_status(t, Task_save(t, d), UNALLOCATED) ELSE Ret(t, d)

----------------------------------------------------------------------------
(* Inputs *)

RobotIdLists == {<<"r1">>, <<"r2">>, <<"r2", "r1">>}

\* TaskPlan(robot, actions): a robot-independent stage and a stage bound to a robot
TaskPlans == {[robot |-> None, actions |-> <<"a1">>],
              [robot |-> Some("r2"), actions |-> <<"a2">>]}

\* (departure_time, start_time, finish_time)
Schedules == {<<100, 160, 400>>}

\* (mean, variance) in units of 1/10000
Durations == {<<12346, 2504>>}

\* (earliest_time, latest_time)
Windows == {<<30, 90>>}

----------------------------------------------------------------------------
(* Lookups of requests and of the tasks of a request *)

\* TaskRequest.get_request / get_archived_request: None stands for
\* DoesNotExist (the document read is valid, so validate_model returns it)
get_request(d, request_id) ==
    IF request_id \in DOMAIN d.task_request
    THEN Some(d.task_request[request_id]) ELSE None

get_archived_request(d, request_id) ==
    IF request_id \in DOMAIN d.task_request_archive
    THEN Some(d.task_request_archive[request_id]) ELSE None

\* the loop of get_tasks_by_request over request.task_ids: a task found live
\* goes to "tasks"; on DoesNotExist get_archived_task decides, and its
\* DoesNotExist leaves the loop
RECURSIVE by_request_loop(_, _, _)
by_request_loop(d, task_ids, acc) ==
    IF task_ids = << >> \/ acc.raised # "" THEN acc
    ELSE LET task_id == Head(task_ids)
             acc1 == IF get_task(d, task_id) # None
                     THEN [acc EXCEPT !.tasks = Append(@, get_task(d, task_id)[1])]
                     ELSE IF get_archived_task(d, task_id) # None
                          THEN [acc EXCEPT !.archived_tasks =
                                               Append(@, get_archived_task(d, task_id)[1])]
                          ELSE [acc EXCEPT !.raised = "DoesNotExist"]
         IN  by_request_loop(d, Tail(task_ids), acc1)

\* Task.get_tasks_by_request
get_tasks_by_request(d, request_id) ==
    LET request == IF get_request(d, request_id) # None
                   THEN get_request(d, request_id)
                   ELSE get_archived_request(d, request_id)
        none == [tasks |-> << >>, archived_tasks |-> << >>, raised |-> ""]
    IN  IF request = None THEN [none EXCEPT !.raised = "DoesNotExist"]
        ELSE by_request_loop(d, request[1].task_ids, none)

----------------------------------------------------------------------------
(* State machine *)

\* no start_time and no finish_time among the keyword arguments
NoKwargs == [start_time |-> << >>, finish_time |-> << >>]

\* an interface object after construction: no callback registered, nothing
\* received. callback_dict and functions are the dictionaries of the object;
\* the other fields record what happened: the function last registered for
\* each key, the messages put in the queue, what process_msgs did with each
\* message, whether the last process_msgs call returned and nothing was
\* queued since, and the numbers of messages, registrations and calls
NoApi == [kind |-> "mqtt", callback_dict |-> << >>, functions |-> << >>,
          queue |-> << >>, running |-> FALSE, handled |-> << >>,
          registered_for |-> << >>, accepted |-> {}, returned |-> FALSE,
          received |-> 0, registered |-> 0, runs |-> 0]

NoArgs == [status |-> "", robot_ids |-> << >>, save_in_db |-> TRUE,
           task_plan |-> None, schedule |-> None, task_id |-> None,
           outage |-> None, method |-> None, request_id |-> None,
           window |-> None, action_id |-> None, type |-> None,
           task_ids |-> << >>, boolean |-> FALSE, action_status |-> "",
           caller |-> 1, kwargs |-> NoKwargs,
           parent_task_id |-> None]

UsedIds == (DOMAIN db.task) \cup (DOMAIN db.task_archive)
             \cup (DOMAIN db.task_status) \cup (DOMAIN db.task_status_archive)
             \cup {mem[i].task_id : i \in DOMAIN mem}

\* uuid.uuid4(): an id no document and no object carries
HasFresh == UsedIds # TaskIds
uuid4 == CHOOSE i \in TaskIds \ UsedIds : \A j \in TaskIds \ UsedIds : i <= j

\* a robot's timetable before a solver has written a graph into it
NoTimetable == [ztp |-> 0, nodes |-> << >>, links |-> << >>]

Init ==
    /\ mem = None
    /\ db = EmptyDb
    /\ last = [op |-> "init", args |-> NoArgs, raised |-> "", pre_mem |-> None,
               pre_db |-> EmptyDb, prev_op |-> "init", prev_raised |-> "", n |-> 0,
               result |-> None]
    /\ terminated = {}
    /\ timetable = NoTimetable
    /\ mem2 = None
    /\ default_tasks = << >>
    /\ api = NoApi

\* the operation op(args) ran on the caller's object and returned r
Step(op, args, r) ==
    /\ last.n < MaxOps
    /\ mem' = Some(r.t)
    /\ db' = r.d
    /\ last' = [op |-> op, args |-> args, raised |-> r.raised, pre_mem |-> mem,
                pre_db |-> db, prev_op |-> last.op, prev_raised |-> last.raised,
                n |-> last.n + 1, result |-> None]
    /\ terminated' = IF op = "update_status" /\ args.status \in archived_status
                     THEN terminated \cup {r.t.task_id} ELSE terminated
    /\ UNCHANGED <<timetable, mem2, default_tasks, api>>

\* a lookup that raised DoesNotExist: the caller keeps the object it had
Miss(op, args) ==
    /\ last.n < MaxOps
    /\ UNCHANGED <<mem, db, terminated, timetable, mem2, default_tasks, api>>
    /\ last' = [op |-> op, args |-> args, raised |-> "DoesNotExist", pre_mem |-> mem,
                pre_db |-> db, prev_op |-> last.op, prev_raised |-> last.raised,
                n |-> last.n + 1, result |-> None]

CreateNew ==
    /\ HasFresh
    /\ Step("create_new", [NoArgs EXCEPT !.task_id = Some(uuid4)], create_new(db, uuid4))

FromPayload ==
    /\ HasFresh
    /\ \E save_in_db \in BOOLEAN :
         Step("from_payload", [NoArgs EXCEPT !.task_id = Some(uuid4), !.save_in_db = save_in_db],
              from_payload(db, uuid4, save_in_db))

GetTask ==
    \E id \in TaskIds :
       LET args == [NoArgs EXCEPT !.task_id = Some(id)]
       IN  IF get_task(db, id) # None
           THEN Step("get_task", args, Ret(get_task(db, id)[1], db))
           ELSE Miss("get_task", args)

GetArchivedTask ==
    \E id \in TaskIds :
       LET args == [NoArgs EXCEPT !.task_id = Some(id)]
       IN  IF get_archived_task(db, id) # None
           THEN Step("get_archived_task", args, Ret(get_archived_task(db, id)[1], db))
           ELSE Miss("get_archived_task", args)

UpdateStatus ==
    /\ mem # None
    /\ \E status \in TaskStatusConst :
         Step("update_status", [NoArgs EXCEPT !.status = status],
              update_status(mem[1], db, status))

AssignRobots ==
    /\ mem # None
    /\ \E robot_ids \in RobotIdLists, save_in_db \in BOOLEAN :
         Step("assign_robots", [NoArgs EXCEPT !.robot_ids = robot_ids, !.save_in_db = save_in_db],
              assign_robots(mem[1], db, robot_ids, save_in_db))

UnassignRobots ==
    /\ mem # None
    /\ Step("unassign_robots", NoArgs, unassign_robots(mem[1], db))

UpdatePlan ==
    /\ mem # None
    /\ Len(mem[1].plan) < MaxPlan
    /\ \E task_plan \in TaskPlans :
         Step("update_plan", [NoArgs EXCEPT !.task_plan = Some(task_plan)],
              update_plan(mem[1], db, task_plan))

ScheduleTask ==
    /\ mem # None
    /\ \E s \in Schedules :
         Step("schedule_task", [NoArgs EXCEPT !.schedule = Some(s)],
              schedule_task(mem[1], db, s[1], s[2], s[3]))

Pause ==
    /\ mem # None
    /\ Step("pause", NoArgs, pause(mem[1], db))

Continue ==
    /\ mem # None
    /\ Step("continue_", NoArgs, continue_(mem[1], db))

UpdateTravelTime ==
    /\ mem # None
    /\ \E x \in Durations, save_in_db \in BOOLEAN :
         Step("update_travel_time", [NoArgs EXCEPT !.save_in_db = save_in_db],
              update_travel_time(mem[1], db, x[1], x[2], save_in_db))

UpdateWorkTime ==
    /\ mem # None
    /\ \E x \in Durations, save_in_db \in BOOLEAN :
         Step("update_work_time", [NoArgs EXCEPT !.save_in_db = save_in_db],
              update_work_time(mem[1], db, x[1], x[2], save_in_db))

UpdateStartConstraint ==
    /\ mem # None
    /\ \E w \in Windows, save_in_db \in BOOLEAN :
         Step("update_start_constraint", [NoArgs EXCEPT !.save_in_db = save_in_db],
              update_start_constraint(mem[1], db, w[1], w[2], save_in_db))

Archive ==
    /\ mem # None
    /\ Step("archive", NoArgs, archive(mem[1], db))

Next ==
    \/ CreateNew
    \/ FromPayload
    \/ GetTask
    \/ GetArchivedTask
    \/ UpdateStatus
    \/ AssignRobots
    \/ UnassignRobots
    \/ UpdatePlan
    \/ ScheduleTask
    \/ Pause
    \/ Continue
    \/ UpdateTravelTime
    \/ UpdateWorkTime
    \/ UpdateStartConstraint
    \/ Archive

Spec == Init /\ [][Next]_vars

----------------------------------------------------------------------------
(* Store outages: the store may be unreachable for some of the accesses a   *)
(* call makes; such an access raises ServerSelectionTimeoutError and leaves *)
(* the store as it was.                                                     *)

\* number of store accesses of one call an outage can cover
MaxAccesses == 4
\* number of calls in one behaviour with outages
MaxCalls == 3

Unreachable == "ServerSelectionTimeoutError"

\* an outage covers the accesses number from..to of the call: a single
\* access, or all of them
Outages == {o \in [from : 1..MaxAccesses, to : 1..MaxAccesses] :
              o.from = o.to \/ (o.from = 1 /\ o.to = MaxAccesses)}

\* the store as a running call sees it: the documents, the number of accesses
\* made so far, the outage (None: the store stays reachable) and the exception
\* that is propagating ("" = none)
Conn(d, outage) == [d |-> d, n |-> 0, outage |-> outage, raised |-> ""]

\* one access (replace_one, delete_many) that would leave the documents as d2;
\* it is not reached while an exception propagates
Access(c, d2) ==
    IF c.raised # "" THEN c
    ELSE IF c.outage # None /\ c.outage[1].from <= c.n + 1 /\ c.n + 1 <= c.outage[1].to
         THEN [c EXCEPT !.n = @ + 1, !.raised = Unreachable]
         ELSE [c EXCEPT !.n = @ + 1, !.d = d2]

\* TaskStatus.save is MongoModel.save: no exception is caught
TaskStatus_save_on(s, c) == Access(c, TaskStatus_save(s, c.d))

\* TaskStatus.archive: super().save() into the archive, then self.delete()
\* (no progress was recorded for the task, so there is no record to archive)
TaskStatus_archive_on(s, c) ==
    LET c1 == Access(c, [c.d EXCEPT !.task_status_archive = Put(@, s.task_id, s)])
    IN  Access(c1, [c1.d EXCEPT !.task_status = Del(@, s.task_id)])

\* Task.save: the cascading save runs inside try/except ServerSelectionTimeoutError
Task_save_on(t, c) ==
    IF c.raised # "" THEN c
    ELSE LET c0 == IF t.request # None THEN Access(c, TaskRequest_save(t.request[1], c.d))
                   ELSE c
             c1 == IF t.status # None THEN TaskStatus_save_on(t.status[1], c0) ELSE c0
             c2 == Access(c1, [c1.d EXCEPT !.task = Put(@, t.task_id, t)])
         IN  [c2 EXCEPT !.raised = IF @ = Unreachable THEN "" ELSE @]

\* Task.archive saving through Task.save's try/except instead of super().save()
Task_archive_on_Swallowing(t, c) ==
    IF c.raised # "" THEN c
    ELSE LET c1 == Access(c, [c.d EXCEPT !.task_archive = Put(@, t.task_id, t)])
             c2 == [c1 EXCEPT !.raised = IF @ = Unreachable THEN "" ELSE @]
         IN  Access(c2, [c2.d EXCEPT !.task = Del(@, t.task_id)])

\* Task.archive: super().save() into the archive, then self.delete()
Task_archive_on(t, c) ==
    LET c1 == Access(c, [c.d EXCEPT !.task_archive = Put(@, t.task_id, t)])
    IN  Access(c1, [c1.d EXCEPT !.task = Del(@, t.task_id)])

\* what the caller gets back from a call that worked on connection c
Done(t, c) == [t |-> t, d |-> c.d, raised |-> c.raised]

\* Task.update_status
update_status_on(t, d, status, outage) ==
    LET t1 == ensure_status(t)
        t2 == [t1 EXCEPT !.status[1].status = status]
        c  == Conn(d, outage)
    IN  IF status \in archived_status
        THEN Done(t2, Task_archive_on(t2, TaskStatus_archive_on(t2.status[1], c)))
        ELSE Done(t2, Task_save_on(t2, TaskStatus_save_on(t2.status[1], c)))

\* Task.set_recovery_method
set_recovery_method_on(t, d, method, outage) ==
    LET t1 == ensure_status(t)
        t2 == [t1 EXCEPT !.status[1].recovery_method = Some(method)]
    IN  Done(t2, Task_save_on(t2, Conn(d, outage)))

\* Task.pause
pause_on(t, d, outage) ==
    IF t.status = None
    THEN Raise(t, d, "AttributeError")
    ELSE LET t1 == [t EXCEPT !.status[1].paused = TRUE]
         IN  Done(t1, Task_save_on(t1, Conn(d, outage)))

\* Task.continue_
continue_on(t, d, outage) ==
    IF t.status = None
    THEN Raise(t, d, "AttributeError")
    ELSE LET t1 == [t EXCEPT !.status[1].paused = FALSE]
         IN  Done(t1, Task_save_on(t1, Conn(d, outage)))

\* Task.update_work_time(mean, variance, save_in_db=True)
update_work_time_on(t, d, mean, variance, outage) ==
    LET t1 == [t EXCEPT !.work_time = EstimatedDuration_update(@, mean, variance)]
    IN  Done(t1, Task_save_on(t1, Conn(d, outage)))

\* Task.update_start_constraint(earliest_time, latest_time, save_in_db=True)
update_start_constraint_on(t, d, earliest_time, latest_time, outage) ==
    LET t1 == [t EXCEPT !.start = TimepointConstraint_update(@, earliest_time, latest_time)]
    IN  Done(t1, Task_save_on(t1, Conn(d, outage)))

\* statuses update_status is called with while the store may be unreachable
OutageStatuses == {ALLOCATED, FINISHED, ABORTED}
RecoveryMethods == {"re-allocate"}
\* the store during one call: reachable throughout, or with one outage
Reachability == {None} \cup {Some(o) : o \in Outages}

UpdateStatusOn ==
    /\ last.n < MaxCalls
    /\ mem # None
    /\ \E status \in OutageStatuses, outage \in Reachability :
         Step("update_status", [NoArgs EXCEPT !.status = status, !.outage = outage],
              update_status_on(mem[1], db, status, outage))

SetRecoveryMethodOn ==
    /\ last.n < MaxCalls
    /\ mem # None
    /\ \E method \in RecoveryMethods, outage \in Reachability :
         Step("set_recovery_method", [NoArgs EXCEPT !.method = Some(method), !.outage = outage],
              set_recovery_method_on(mem[1], db, method, outage))

PauseOn ==
    /\ last.n < MaxCalls
    /\ mem # None
    /\ \E outage \in Reachability :
         Step("pause", [NoArgs EXCEPT !.outage = outage], pause_on(mem[1], db, outage))

ContinueOn ==
    /\ last.n < MaxCalls
    /\ mem # None
    /\ \E outage \in Reachability :
         Step("continue_", [NoArgs EXCEPT !.outage = outage], continue_on(mem[1], db, outage))

UpdateWorkTimeOn ==
    /\ last.n < MaxCalls
    /\ mem # None
    /\ \E x \in Durations, outage \in Reachability :
         Step("update_work_time", [NoArgs EXCEPT !.outage = outage],
              update_work_time_on(mem[1], db, x[1], x[2], outage))

UpdateStartConstraintOn ==
    /\ last.n < MaxCalls
    /\ mem # None
    /\ \E x \in Windows, outage \in Reachability :
         Step("update_start_constraint", [NoArgs EXCEPT !.outage = outage],
              update_start_constraint_on(mem[1], db, x[1], x[2], outage))

\* the task the calls work on is made while the store is reachable
CreateNewOn == last.n < MaxCalls /\ CreateNew
FromPayloadOn == last.n < MaxCalls /\ FromPayload

NextOutage ==
    \/ CreateNewOn
    \/ FromPayloadOn
    \/ UpdateStatusOn
    \/ SetRecoveryMethodOn
    \/ PauseOn
    \/ ContinueOn
    \/ UpdateWorkTimeOn
    \/ UpdateStartConstraintOn

SpecOutage == Init /\ [][NextOutage]_vars

----------------------------------------------------------------------------
(* Deprecated-format documents: validation on read, and deprecate()         *)

Invalid == "ValidationError"

\* full_clean() of a TaskStatus / TaskRequest passes
StatusValid(s) == s.invalid = {}
RequestValid(q) == q.invalid = {}

\* clean_fields() of a Task passes: no field of its own fails validation, and
\* the embedded request and status documents validate
TaskValid(t) ==
    /\ t.invalid = {}
    /\ t.request # None => RequestValid(t.request[1])
    /\ t.status # None => StatusValid(t.status[1])

\* TaskRequest.archive: self.save() into "task_request_archive", self.delete()
TaskRequest_archive(q, d) ==
    [d EXCEPT !.task_request_archive = Put(@, q.request_id, q),
              !.task_request = Del(@, q.request_id)]

\* TaskRequest.deprecate: the fields that fail validation are deleted from the
\* object (request_id itself validates), then the request is archived
TaskRequest_deprecate(q, d) ==
    LET q1 == [q EXCEPT !.invalid = {}]
    IN  [q |-> q1, d |-> TaskRequest_archive(q1, d)]

\* the field loop of Task.deprecate: an embedded request that fails validation
\* is deprecated, every other failing field is deleted from the object
deprecate_fields(t, d) ==
    LET bad == t.request # None /\ ~RequestValid(t.request[1])
        r   == TaskRequest_deprecate(t.request[1], d)
        t1  == IF bad THEN [t EXCEPT !.request = Some(r.q)] ELSE t
        t2  == [t1 EXCEPT !.schedule = IF "schedule" \in t.invalid THEN None ELSE @,
                          !.invalid = {}]
    IN  [t |-> t2, d |-> IF bad THEN r.d ELSE d]

\* Task.deprecate. self.status.archive() saves with full_clean before the
\* field loop runs, outside its try/except: a status that fails validation
\* raises ValidationError there
deprecate(t, d) ==
    LET t1 == ensure_status(t)
        t2 == [t1 EXCEPT !.status[1].status = DEPRECATED]
    IN  IF ~StatusValid(t2.status[1])
        THEN Raise(t2, d, Invalid)
        ELSE LET f == deprecate_fields(t2, TaskStatus_archive(t2.status[1], d))
             IN  Ret(f.t, Task_archive(f.t, f.d))

\* TaskQuerySet.validate_model: a task that fails clean_fields() is deprecated
\* and returned
validate_model(task, d) ==
    IF TaskValid(task) THEN Ret(task, d) ELSE deprecate(task, d)

\* TaskStatus.deprecate: Task.get_task(self.task_id) followed by task.archive();
\* ValidationError and DoesNotExist are passed over. Returns the store.
TaskStatus_deprecate(s, d) ==
    IF s.task_id \notin DOMAIN d.task THEN d
    ELSE LET r == validate_model(d.task[s.task_id], d)
         IN  IF r.raised # "" THEN r.d ELSE Task_archive(r.t, r.d)

\* TaskStatusQuerySet.validate_model: a status that fails full_clean() is
\* deprecated and the ValidationError is raised again
status_validate_model(s, d) ==
    IF StatusValid(s) THEN [d |-> d, raised |-> ""]
    ELSE [d |-> TaskStatus_deprecate(s, d), raised |-> Invalid]

\* RequestQuerySet.validate_model: a request that fails full_clean() is
\* deprecated and the ValidationError is raised again
request_validate_model(q, d) ==
    IF RequestValid(q) THEN [d |-> d, raised |-> ""]
    ELSE [d |-> TaskRequest_deprecate(q, d).d, raised |-> Invalid]

\* the loop of by_status over the status documents ids read by the raw query:
\* a ValidationError of validate_model is caught and the document left out
RECURSIVE by_status_loop(_, _, _)
by_status_loop(d, read, ids) ==
    IF ids = {} THEN [d |-> d, raised |-> "", result |-> {}]
    ELSE LET i    == CHOOSE x \in ids : \A y \in ids : x <= y
             r    == status_validate_model(read[i], d)
             rest == by_status_loop(r.d, read, ids \ {i})
         IN  [rest EXCEPT !.result = IF r.raised = "" THEN @ \cup {i} ELSE @]

\* TaskStatusQuerySet.by_status
by_status(d, status) ==
    by_status_loop(d, d.task_status,
                   {i \in DOMAIN d.task_status : d.task_status[i].status = status})

----------------------------------------------------------------------------
(* Reads of a store that holds documents of a deprecated format *)

\* documents as an earlier schema left them: some fail validation
LegacyStatuses ==
    {[TaskStatus_new(1) EXCEPT !.status = st, !.invalid = inv] :
        st \in {UNALLOCATED, ALLOCATED}, inv \in {{}, {"progress"}}}
LegacyRequests ==
    {[TaskRequest_new("q1", 30, 90) EXCEPT !.invalid = inv] : inv \in {{}, {"map"}}}
LegacySchedule == [departure_time |-> 100, start_time |-> 160, finish_time |-> 400]
LegacyTasks ==
    {[Task_new(1, s) EXCEPT !.request = q, !.invalid = inv,
                            !.schedule = IF "schedule" \in inv THEN Some(LegacySchedule)
                                         ELSE None] :
        s \in {None} \cup {Some(x) : x \in LegacyStatuses},
        q \in {None} \cup {Some(x) : x \in LegacyRequests},
        inv \in {{}, {"schedule"}}}
StatusQueries == {UNALLOCATED, ALLOCATED}

\* each live collection holds no document or one of the legacy ones
LiveTasks == {Empty} \cup {Put(Empty, x.task_id, x) : x \in LegacyTasks}
LiveStatuses == {Empty} \cup {Put(Empty, x.task_id, x) : x \in LegacyStatuses}
LiveRequests == {Empty} \cup {Put(Empty, x.request_id, x) : x \in LegacyRequests}

InitLegacy ==
    /\ mem = None
    /\ terminated = {}
    /\ timetable = NoTimetable
    /\ mem2 = None
    /\ default_tasks = << >>
    /\ api = NoApi
    /\ \E t \in LiveTasks, s \in LiveStatuses, q \in LiveRequests :
         db = [EmptyDb EXCEPT !.task = t, !.task_status = s, !.task_request = q]
    /\ last = [op |-> "init", args |-> NoArgs, raised |-> "", pre_mem |-> None,
               pre_db |-> EmptyDb, prev_op |-> "init", prev_raised |-> "", n |-> 0,
               result |-> None]

\* a read op(args) ran: the caller holds m afterwards, the store is d
Fetch(op, args, m, d, raised) ==
    /\ last.n < MaxCalls
    /\ mem' = m
    /\ db' = d
    /\ last' = [op |-> op, args |-> args, raised |-> raised, pre_mem |-> mem,
                pre_db |-> db, prev_op |-> last.op, prev_raised |-> last.raised,
                n |-> last.n + 1, result |-> None]
    /\ UNCHANGED <<terminated, timetable, mem2, default_tasks, api>>

\* Task.get_task(task_id) on the live collection
GetTaskValidated ==
    \E id \in TaskIds :
       LET args == [NoArgs EXCEPT !.task_id = Some(id)]
       IN  IF id \in DOMAIN db.task
           THEN LET r == validate_model(db.task[id], db)
                IN  Fetch("get_task", args, IF r.raised = "" THEN Some(r.t) ELSE mem,
                          r.d, r.raised)
           ELSE last.n < MaxCalls /\ Miss("get_task", args)

\* TaskStatus.get_task_status(task_id) on the live collection
GetTaskStatusValidated ==
    \E id \in TaskIds :
       LET args == [NoArgs EXCEPT !.task_id = Some(id)]
       IN  IF id \in DOMAIN db.task_status
           THEN LET r == status_validate_model(db.task_status[id], db)
                IN  Fetch("get_task_status", args, mem, r.d, r.raised)
           ELSE last.n < MaxCalls /\ Miss("get_task_status", args)

\* TaskStatus.objects.by_status(status)
ByStatus ==
    /\ last.n < MaxCalls
    /\ \E status \in StatusQueries :
         LET r == by_status(db, status)
         IN  Fetch("by_status", [NoArgs EXCEPT !.status = status], mem, r.d, r.raised)

\* TaskRequest.get_request(request_id) on the live collection
GetRequest ==
    \E id \in {x.request_id : x \in LegacyRequests} :
       LET args == [NoArgs EXCEPT !.request_id = Some(id)]
       IN  IF id \in DOMAIN db.task_request
           THEN LET r == request_validate_model(db.task_request[id], db)
                IN  Fetch("get_request", args, mem, r.d, r.raised)
           ELSE last.n < MaxCalls /\ Miss("get_request", args)

\* deprecate() called on a TaskStatus object held from the live collection
DeprecateStatus ==
    \E id \in DOMAIN db.task_status :
       Fetch("TaskStatus.deprecate", [NoArgs EXCEPT !.task_id = Some(id)], mem,
             TaskStatus_deprecate(db.task_status[id], db), "")

\* deprecate() called on the caller's task object
Deprecate ==
    /\ last.n < MaxCalls
    /\ mem # None
    /\ Step("deprecate", NoArgs, deprecate(mem[1], db))

NextLegacy ==
    \/ GetTaskValidated
    \/ GetTaskStatusValidated
    \/ ByStatus
    \/ GetRequest
    \/ DeprecateStatus
    \/ Deprecate

SpecLegacy == InitLegacy /\ [][NextLegacy]_vars

----------------------------------------------------------------------------
(* Lookups of actions, action progress and the tasks of a request, in a     *)
(* store where documents move from the live collections to the archives     *)

\* number of calls in one behaviour of lookups
MaxLookups == 5

ActionIds == {"a1", "a2"}
ActionTypes == {"WALL_FOLLOWING"}
TypeQueries == {None} \cup {Some(x) : x \in ActionTypes}
RequestIds == {"q1"}
\* task_ids of a request: ids of tasks that may or may not be stored
TaskIdLists == {<<i>> : i \in TaskIds} \cup {<<1, 2>>}

\* a call ran on the store and gave result back; the task object is not involved
Lookup(op, args, d, result, raised) ==
    /\ db' = d
    /\ last' = [op |-> op, args |-> args, raised |-> raised, pre_mem |-> mem,
                pre_db |-> db, prev_op |-> last.op, prev_raised |-> last.raised,
                n |-> last.n + 1, result |-> result]
    /\ UNCHANGED <<mem, terminated, timetable, mem2, default_tasks, api>>

CreateNewLookup == last.n < MaxLookups /\ CreateNew

ArchiveLookup == last.n < MaxLookups /\ Archive

\* TaskRequest(request_id=..., task_ids=...).save()
SaveRequest ==
    /\ last.n < MaxLookups
    /\ \E id \in RequestIds, ids \in TaskIdLists :
         /\ id \notin (DOMAIN db.task_request) \cup (DOMAIN db.task_request_archive)
         /\ Lookup("TaskRequest.save",
                   [NoArgs EXCEPT !.request_id = Some(id), !.task_ids = ids],
                   TaskRequest_save([TaskRequest_new(id, 30, 90) EXCEPT !.task_ids = ids], db),
                   None, "")

\* archive() on a request held from the live collection
ArchiveRequest ==
    /\ last.n < MaxLookups
    /\ \E id \in DOMAIN db.task_request :
         Lookup("TaskRequest.archive", [NoArgs EXCEPT !.request_id = Some(id)],
                TaskRequest_archive(db.task_request[id], db), None, "")

GetTasksByRequest ==
    /\ last.n < MaxLookups
    /\ \E id \in RequestIds :
         Lookup("get_tasks_by_request", [NoArgs EXCEPT !.request_id = Some(id)], db,
                [tasks |-> get_tasks_by_request(db, id).tasks,
                 archived_tasks |-> get_tasks_by_request(db, id).archived_tasks],
                get_tasks_by_request(db, id).raised)

UsedActionIds == (DOMAIN db.action) \cup (DOMAIN db.action_archive)

\* Action.create_new(action_type=...): uuid4 gives an id no action carries
ActionCreateNew ==
    /\ last.n < MaxLookups
    /\ \E id \in ActionIds \ UsedActionIds, type \in ActionTypes :
         Lookup("Action.create_new",
                [NoArgs EXCEPT !.action_id = Some(id), !.type = Some(type)],
                Action_create_new(db, id, type, TRUE), Some(Action_new(id, type)), "")

\* archive() on an action object read from the live or the archive collection
ActionArchive ==
    /\ last.n < MaxLookups
    /\ \E a \in Action_get_actions(db, None) \cup Action_get_archived_actions(db, None) :
         Lookup("Action.archive", [NoArgs EXCEPT !.action_id = Some(a.action_id)],
                Action_archive(a, db), None, "")

GetAction ==
    /\ last.n < MaxLookups
    /\ \E id \in ActionIds :
         Lookup("get_action", [NoArgs EXCEPT !.action_id = Some(id)], db,
                Action_get_action(db, id).result, Action_get_action(db, id).raised)

GetActions ==
    /\ last.n < MaxLookups
    /\ \E type \in TypeQueries :
         Lookup("get_actions", [NoArgs EXCEPT !.type = type], db,
                Action_get_actions(db, type), "")

\* "actions = Action.get_actions(type=...); for a in actions: a.archive()"
ArchiveActions ==
    /\ last.n < MaxLookups
    /\ \E type \in TypeQueries :
         Lookup("archive_each", [NoArgs EXCEPT !.type = type],
                archive_each(Action_get_actions(db, type), db),
                Action_get_actions(db, type), "")

\* the progress record of an action is saved
SaveActionProgress ==
    /\ last.n < MaxLookups
    /\ \E id \in ActionIds \ ((DOMAIN db.action_progress)
                                \cup (DOMAIN db.action_progress_archive)) :
         Lookup("ActionProgress.save", [NoArgs EXCEPT !.action_id = Some(id)],
                ActionProgress_save(ActionProgress_new(id), db), None, "")

\* archive() on a progress record read from the live collection
ArchiveActionProgress ==
    /\ last.n < MaxLookups
    /\ \E id \in DOMAIN db.action_progress :
         Lookup("ActionProgress.archive", [NoArgs EXCEPT !.action_id = Some(id)],
                ActionProgress_archive(db.action_progress[id], db), None, "")

GetActionProgress ==
    /\ last.n < MaxLookups
    /\ \E id \in ActionIds :
         Lookup("get_action_progress", [NoArgs EXCEPT !.action_id = Some(id)], db,
                get_action_progress(db, id).result, get_action_progress(db, id).raised)

NextLookup ==
    \/ CreateNewLookup
    \/ ArchiveLookup
    \/ SaveRequest
    \/ ArchiveRequest
    \/ GetTasksByRequest
    \/ ActionCreateNew
    \/ ActionArchive
    \/ GetAction
    \/ GetActions
    \/ ArchiveActions
    \/ SaveActionProgress
    \/ ArchiveActionProgress
    \/ GetActionProgress

SpecLookup == Init /\ [][NextLookup]_vars

----------------------------------------------------------------------------
(* The flags of a task's status: pause, continue, delayed, early, recovery  *)
(* method, next to status transitions and progress updates                  *)

\* number of calls in one behaviour of flag changes
MaxFlagOps == 4

FlagStatuses == {ALLOCATED, RUNNING, FINISHED}
ActionStatuses == {"ONGOING", FINISHED}
RobotPose == "pose"

CreateNewFlags == last.n < MaxFlagOps /\ CreateNew

GetTaskFlags == last.n < MaxFlagOps /\ GetTask

UpdatePlanFlags == last.n < MaxFlagOps /\ UpdatePlan

UpdateStatusFlags ==
    /\ last.n < MaxFlagOps
    /\ mem # None
    /\ \E status \in FlagStatuses :
         Step("update_status", [NoArgs EXCEPT !.status = status],
              update_status(mem[1], db, status))

PauseFlags == last.n < MaxFlagOps /\ Pause

ContinueFlags == last.n < MaxFlagOps /\ Continue

SetRecoveryMethod ==
    /\ last.n < MaxFlagOps
    /\ mem # None
    /\ \E method \in RecoveryMethods :
         Step("set_recovery_method", [NoArgs EXCEPT !.method = Some(method)],
              set_recovery_method(mem[1], db, method))

SetDelayed ==
    /\ last.n < MaxFlagOps
    /\ mem # None
    /\ \E boolean \in BOOLEAN :
         Step("delayed", [NoArgs EXCEPT !.boolean = boolean],
              set_delayed(mem[1], db, boolean))

SetEarly ==
    /\ last.n < MaxFlagOps
    /\ mem # None
    /\ \E boolean \in BOOLEAN :
         Step("early", [NoArgs EXCEPT !.boolean = boolean],
              set_early(mem[1], db, boolean))

ClearRecoveryMethod ==
    /\ last.n < MaxFlagOps
    /\ mem # None
    /\ Step("clear_recovery_method", NoArgs, clear_recovery_method(mem[1], db))

UpdateProgress ==
    /\ last.n < MaxFlagOps
    /\ mem # None
    /\ \E action_id \in ActionIds, action_status \in ActionStatuses :
         Step("update_progress",
              [NoArgs EXCEPT !.action_id = Some(action_id), !.action_status = action_status],
              update_progress(mem[1], db, action_id, action_status, RobotPose, NoKwargs))

NextFlags ==
    \/ CreateNewFlags
    \/ GetTaskFlags
    \/ UpdatePlanFlags
    \/ UpdateStatusFlags
    \/ PauseFlags
    \/ ContinueFlags
    \/ SetRecoveryMethod
    \/ ClearRecoveryMethod
    \/ SetDelayed
    \/ SetEarly
    \/ UpdateProgress

SpecFlags == Init /\ [][NextFlags]_vars

----------------------------------------------------------------------------
(* The progress tracker of a task with several actions in its first plan    *)
(* stage                                                                    *)

\* number of calls in one behaviour of progress reports
MaxProgressOps == 3

ProgressIds == {"a1", "a2", "a3"}

ProgressPlans == {[robot |-> None, actions |-> <<"a1", "a2", "a3">>],
                  [robot |-> None, actions |-> <<"a2", "a1">>]}

\* the keyword arguments of a progress report: none, a start time, a finish time
Kwargs == {NoKwargs,
           [start_time |-> Some(100), finish_time |-> None],
           [start_time |-> None, finish_time |-> Some(160)]}

\* Task.create_new(plan=[...]): the keyword arguments become fields of the task
create_new_planned(d, task_id, plan) ==
    LET s == TaskStatus_new(task_id)
        t == [Task_new(task_id, Some(s)) EXCEPT !.plan = plan]
    IN  Ret(t, Task_save(t, TaskStatus_save(s, d)))

CreateNewPlanned ==
    /\ last.n < MaxProgressOps
    /\ HasFresh
    /\ \E plan \in {<< >>} \cup {<<task_plan>> : task_plan \in ProgressPlans} :
         Step("create_new", [NoArgs EXCEPT !.task_id = Some(uuid4)],
              create_new_planned(db, uuid4, plan))

ActionCreateNewProgress == last.n < MaxProgressOps /\ ActionCreateNew

UpdatePlanProgress ==
    /\ last.n < MaxProgressOps
    /\ mem # None
    /\ Len(mem[1].plan) < MaxPlan
    /\ \E task_plan \in ProgressPlans :
         Step("update_plan", [NoArgs EXCEPT !.task_plan = Some(task_plan)],
              update_plan(mem[1], db, task_plan))

UpdateProgressTimed ==
    /\ last.n < MaxProgressOps
    /\ mem # None
    /\ \E action_id \in ProgressIds, action_status \in ActionStatuses, kwargs \in Kwargs :
         Step("update_progress",
              [NoArgs EXCEPT !.action_id = Some(action_id),
                             !.action_status = action_status, !.kwargs = kwargs],
              update_progress(mem[1], db, action_id, action_status, RobotPose, kwargs))

\* task.status.progress.update(...) on the object in memory
ProgressUpdate ==
    /\ last.n < MaxProgressOps
    /\ mem # None
    /\ mem[1].status # None
    /\ mem[1].status[1].progress # None
    /\ \E action_id \in ProgressIds, action_status \in ActionStatuses, kwargs \in Kwargs :
         LET r == TaskProgress_update(mem[1].status[1].progress[1], db, action_id,
                                      action_status, RobotPose, kwargs)
         IN  Step("progress_update",
                  [NoArgs EXCEPT !.action_id = Some(action_id),
                                 !.action_status = action_status, !.kwargs = kwargs],
                  [t |-> [mem[1] EXCEPT !.status[1].progress = Some(r.p)],
                   d |-> r.d, raised |-> r.raised])

NextProgress ==
    \/ CreateNewPlanned
    \/ ActionCreateNewProgress
    \/ UpdatePlanProgress
    \/ UpdateProgressTimed
    \/ ProgressUpdate

SpecProgress == Init /\ [][NextProgress]_vars

----------------------------------------------------------------------------
(* Creating a task and editing its constraints, with immediate or deferred  *)
(* persistence                                                              *)

\* number of calls in one behaviour of constraint edits
MaxEdits == 4

\* (earliest_time, latest_time), in either order
WindowPairs == {<<30, 90>>, <<90, 30>>}
\* requests a task is made from
NewRequests == {TaskRequest_new("q1", 40, 80)}

CreateNewEdit == last.n < MaxEdits /\ CreateNew

FromRequest ==
    /\ last.n < MaxEdits
    /\ HasFresh
    /\ \E request \in NewRequests :
         Step("from_request",
              [NoArgs EXCEPT !.task_id = Some(uuid4), !.request_id = Some(request.request_id)],
              from_request(db, uuid4, request))

UpdateStartConstraintEdit ==
    /\ last.n < MaxEdits
    /\ mem # None
    /\ \E w \in WindowPairs, save_in_db \in BOOLEAN :
         Step("update_start_constraint",
              [NoArgs EXCEPT !.save_in_db = save_in_db, !.window = Some(w)],
              update_start_constraint(mem[1], db, w[1], w[2], save_in_db))

UpdateAlternativeStartTime ==
    /\ last.n < MaxEdits
    /\ mem # None
    /\ \E w \in WindowPairs, save_in_db \in BOOLEAN :
         Step("update_alternative_start_time",
              [NoArgs EXCEPT !.save_in_db = save_in_db, !.window = Some(w)],
              update_alternative_start_time(mem[1], db, w[1], w[2], save_in_db))

UpdateWorkTimeEdit ==
    /\ last.n < MaxEdits
    /\ mem # None
    /\ \E x \in Durations, save_in_db \in BOOLEAN :
         Step("update_work_time", [NoArgs EXCEPT !.save_in_db = save_in_db],
              update_work_time(mem[1], db, x[1], x[2], save_in_db))

UpdateTravelTimeEdit ==
    /\ last.n < MaxEdits
    /\ mem # None
    /\ \E x \in Durations, save_in_db \in BOOLEAN :
         Step("update_travel_time", [NoArgs EXCEPT !.save_in_db = save_in_db],
              update_travel_time(mem[1], db, x[1], x[2], save_in_db))

Save ==
    /\ last.n < MaxEdits
    /\ mem # None
    /\ Step("save", NoArgs, save(mem[1], db))

NextEdit ==
    \/ CreateNewEdit
    \/ FromRequest
    \/ UpdateStartConstraintEdit
    \/ UpdateAlternativeStartTime
    \/ UpdateWorkTimeEdit
    \/ UpdateTravelTimeEdit
    \/ Save

SpecEdit == Init /\ [][NextEdit]_vars

----------------------------------------------------------------------------
(* Two callers that hold their own copy of one task: mem is the first       *)
(* caller's object, mem2 the second caller's                                *)

\* number of calls of the two callers together
MaxTurns == 4

Callers == {1, 2}
Obj(c) == IF c = 1 THEN mem ELSE mem2

\* the operation op(args) ran on the second caller's object and returned r
Step2(op, args, r) ==
    /\ mem2' = Some(r.t)
    /\ db' = r.d
    /\ last' = [op |-> op, args |-> args, raised |-> r.raised, pre_mem |-> mem2,
                pre_db |-> db, prev_op |-> last.op, prev_raised |-> last.raised,
                n |-> last.n + 1, result |-> None]
    /\ UNCHANGED <<mem, terminated, timetable, default_tasks, api>>

\* caller c ran op(args) on its object
StepBy(c, op, args, r) ==
    IF c = 1 THEN Step(op, [args EXCEPT !.caller = c], r)
    ELSE Step2(op, [args EXCEPT !.caller = c], r)

CreateNewTwo == last.n < MaxTurns /\ CreateNew

\* Task.get_task(task_id) by either caller
LoadTask ==
    /\ last.n < MaxTurns
    /\ \E c \in Callers, id \in DOMAIN db.task :
         StepBy(c, "get_task", [NoArgs EXCEPT !.task_id = Some(id)],
                Ret(get_task(db, id)[1], db))

EditWorkTime ==
    /\ last.n < MaxTurns
    /\ \E c \in Callers, x \in Durations, save_in_db \in BOOLEAN :
         /\ Obj(c) # None
         /\ StepBy(c, "update_work_time", [NoArgs EXCEPT !.save_in_db = save_in_db],
                   update_work_time(Obj(c)[1], db, x[1], x[2], save_in_db))

EditStartConstraint ==
    /\ last.n < MaxTurns
    /\ \E c \in Callers, w \in WindowPairs, save_in_db \in BOOLEAN :
         /\ Obj(c) # None
         /\ StepBy(c, "update_start_constraint",
                   [NoArgs EXCEPT !.save_in_db = save_in_db, !.window = Some(w)],
                   update_start_constraint(Obj(c)[1], db, w[1], w[2], save_in_db))

SaveTask ==
    /\ last.n < MaxTurns
    /\ \E c \in Callers :
         /\ Obj(c) # None
         /\ StepBy(c, "save", NoArgs, save(Obj(c)[1], db))

NextTwo ==
    \/ CreateNewTwo
    \/ LoadTask
    \/ EditWorkTime
    \/ EditStartConstraint
    \/ SaveTask

SpecTwo == Init /\ [][NextTwo]_vars

----------------------------------------------------------------------------
(* Timetable (fmlib/models/timetable.py): the dispatchable graph and get_time *)

\* number of links in a dispatchable graph
MaxLinks == 3

\* get_node_id scanning the node list from position i: the id of the first
\* node tagged (task_id, node_type), None when the loop falls through
RECURSIVE node_scan(_, _, _, _)
node_scan(nodes, i, task_id, node_type) ==
    IF i > Len(nodes) THEN None
    ELSE IF task_id = nodes[i].task_id /\ node_type = nodes[i].node_type
         THEN Some(nodes[i].id)
         ELSE node_scan(nodes, i + 1, task_id, node_type)

get_node_id(tt, task_id, node_type) == node_scan(tt.nodes, 1, task_id, node_type)

\* the loop of get_time taking every match: time_ is overwritten until the
\* list ends
RECURSIVE link_scan_NoBreak(_, _, _, _)
link_scan_NoBreak(links, i, node_id, lower_bound) ==
    IF i > Len(links) THEN None
    ELSE LET rest == link_scan_NoBreak(links, i + 1, node_id, lower_bound)
             hit  == /\ node_id # None
                     /\ IF lower_bound
                        THEN links[i].source = node_id[1] /\ links[i].target = 0
                        ELSE links[i].source = 0 /\ links[i].target = node_id[1]
         IN IF rest # None THEN rest
            ELSE IF hit THEN Some(IF lower_bound THEN 0 - links[i].weight
                                  ELSE links[i].weight)
            ELSE None

\* the loop of get_time from position i: time_ at the break, None when the
\* loop falls through (a node id of None equals no link end)
RECURSIVE link_scan(_, _, _, _)
link_scan(links, i, node_id, lower_bound) ==
    IF i > Len(links) THEN None
    ELSE IF lower_bound /\ node_id # None
            /\ links[i].source = node_id[1] /\ links[i].target = 0
         THEN Some(0 - links[i].weight)
    ELSE IF ~lower_bound /\ node_id # None
            /\ links[i].source = 0 /\ links[i].target = node_id[1]
         THEN Some(links[i].weight)
    ELSE link_scan(links, i + 1, node_id, lower_bound)

\* "if time_:" is false for None and for 0
get_time(tt, task_id, node_type, lower_bound) ==
    LET time_ == link_scan(tt.links, 1, get_node_id(tt, task_id, node_type), lower_bound)
    IN IF time_ # None /\ time_[1] # 0 THEN Some(tt.ztp + time_[1]) ELSE None

\* node 0 is the zero timepoint; the other nodes carry a task's timepoints
ZeroNode == [id |-> 0, task_id |-> "", node_type |-> "zero_timepoint"]
NodeLists ==
    { <<ZeroNode>>,
      <<ZeroNode, [id |-> 1, task_id |-> "t1", node_type |-> "start"]>>,
      <<ZeroNode, [id |-> 1, task_id |-> "t1", node_type |-> "start"],
                  [id |-> 2, task_id |-> "t1", node_type |-> "finish"]>> }
\* link weights in seconds
Weights == {0 - 60, 0, 90}
Links == { l \in [source : 0..2, target : 0..2, weight : Weights] :
             /\ l.source # l.target
             /\ (l.source = 0 \/ l.target = 0 \/ l.source < l.target) }
RECURSIVE LinkLists(_)
LinkLists(n) == IF n = 0 THEN {<< >>}
                ELSE LinkLists(n - 1)
                       \cup {Append(ls, l) : ls \in {x \in LinkLists(n - 1) : Len(x) = n - 1},
                                             l \in Links}
\* the zero timepoint, in seconds
Ztps == {1000}
Timetables == [ztp : Ztps, nodes : NodeLists, links : LinkLists(MaxLinks)]
NodeTypes == {"start", "finish"}

InitTimetable ==
    /\ mem = None
    /\ db = EmptyDb
    /\ terminated = {}
    /\ timetable \in Timetables
    /\ mem2 = None
    /\ default_tasks = << >>
    /\ api = NoApi
    /\ last = [op |-> "init", task_id |-> "", node_type |-> "", lower_bound |-> TRUE,
               result |-> None]

\* timetable.get_time(task_id, node_type, lower_bound)
GetTime ==
    /\ \E node_type \in NodeTypes, lower_bound \in BOOLEAN :
         last' = [op |-> "get_time", task_id |-> "t1", node_type |-> node_type,
                  lower_bound |-> lower_bound,
                  result |-> get_time(timetable, "t1", node_type, lower_bound)]
    /\ UNCHANGED <<mem, db, terminated, timetable, mem2, default_tasks, api>>

NextTimetable == GetTime

SpecTimetable == InitTimetable /\ [][NextTimetable]_vars

----------------------------------------------------------------------------
(* Reads that list tasks or read the archive, in a store where some         *)
(* documents fail validation                                                *)

\* number of reads in one behaviour
MaxReads == 2

\* Task.archive called while the Task collection is switched to
\* "task_archive": the inner switch_collection restores the name it found,
\* "task_archive", so delete() removes the document that was just saved
Task_archive_switched(t, d) ==
    [d EXCEPT !.task_archive = Del(Put(@, t.task_id, t), t.task_id)]

\* Task.deprecate while the Task collection is switched to "task_archive"
deprecate_switched(t, d) ==
    LET t1 == ensure_status(t)
        t2 == [t1 EXCEPT !.status[1].status = DEPRECATED]
    IN  IF ~StatusValid(t2.status[1])
        THEN Raise(t2, d, Invalid)
        ELSE LET f == deprecate_fields(t2, TaskStatus_archive(t2.status[1], d))
             IN  Ret(f.t, Task_archive_switched(f.t, f.d))

\* deprecate that leaves the archived document in place
deprecate_switched_Keeps(t, d) ==
    LET t1 == ensure_status(t)
        t2 == [t1 EXCEPT !.status[1].status = DEPRECATED]
    IN  IF ~StatusValid(t2.status[1])
        THEN Raise(t2, d, Invalid)
        ELSE LET f == deprecate_fields(t2, TaskStatus_archive(t2.status[1], d))
             IN  Ret(f.t, [f.d EXCEPT !.task_archive = Put(@, f.t.task_id, f.t)])

\* TaskQuerySet.validate_model on the live collection (switched = FALSE) or
\* while the collection is switched to the archive (switched = TRUE)
validate_model_in(task, d, switched) ==
    IF TaskValid(task) THEN Ret(task, d)
    ELSE IF switched THEN deprecate_switched(task, d) ELSE deprecate(task, d)

\* Task.get_archived_task with the validation of the document read
get_archived_task_validated(d, task_id) ==
    IF task_id \notin DOMAIN d.task_archive
    THEN [result |-> None, d |-> d, raised |-> "DoesNotExist"]
    ELSE LET r == validate_model_in(d.task_archive[task_id], d, TRUE)
         IN  [result |-> IF r.raised = "" THEN Some(r.t) ELSE None,
              d |-> r.d, raised |-> r.raised]

\* the collection the Task class points at
TaskCollection(d, switched) == IF switched THEN d.task_archive ELSE d.task

\* the smallest id of a non-empty set: documents are read in id order
FirstId(ids) == CHOOSE x \in ids : \A y \in ids : x <= y

\* the first loop of get_all_tasks over the documents read: validate_model is
\* called on each, and an object whose validation raised ValidationError is
\* put in deprecated_tasks as deprecate() left it
RECURSIVE validate_each(_, _, _, _, _)
validate_rest(r, read, ids, switched, deprecated_tasks) ==
    validate_each(r.d, read, ids, switched,
                  IF r.raised = Invalid THEN deprecated_tasks \cup {r.t}
                  ELSE deprecated_tasks)
validate_each(d, read, ids, switched, deprecated_tasks) ==
    IF ids = {} THEN [d |-> d, deprecated_tasks |-> deprecated_tasks]
    ELSE validate_rest(validate_model_in(read[FirstId(ids)], d, switched), read,
                       ids \ {FirstId(ids)}, switched, deprecated_tasks)

\* the documents of a collection in id order, without those equal to an
\* object of the set excluded: "[task for task in tasks if task not in ...]",
\* which runs the query again
RECURSIVE tasks_not_in(_, _, _)
tasks_not_in(coll, ids, excluded) ==
    IF ids = {} THEN << >>
    ELSE (IF coll[FirstId(ids)] \in excluded THEN << >> ELSE <<coll[FirstId(ids)]>>)
            \o tasks_not_in(coll, ids \ {FirstId(ids)}, excluded)

\* the return statement of get_all_tasks, after the loop left the store v.d
\* and the list v.deprecated_tasks
not_deprecated(v, switched) ==
    [result |-> tasks_not_in(TaskCollection(v.d, switched),
                             DOMAIN TaskCollection(v.d, switched),
                             v.deprecated_tasks),
     d |-> v.d]

\* Task.get_all_tasks
get_all_tasks(d, switched) ==
    not_deprecated(validate_each(d, TaskCollection(d, switched),
                                 DOMAIN TaskCollection(d, switched), switched, {}),
                   switched)

\* the elements of a sequence that satisfy the status test of the loop of
\* get_tasks_by_status
RECURSIVE tasks_with_status(_, _)
tasks_with_status(tasks, status) ==
    IF tasks = << >> THEN << >>
    ELSE (IF Head(tasks).status[1].status \in status THEN <<Head(tasks)>> ELSE << >>)
            \o tasks_with_status(Tail(tasks), status)

\* "tasks.extend(cls.get_all_tasks())" under the switch to the archive
extend(tasks, more) == [result |-> tasks \o more.result, d |-> more.d]

\* the list tasks of get_tasks_by_status: the live tasks, and the archived
\* ones when the status list holds an archived status
tasks_searched(live, status) ==
    IF archived_status \cap status # {}
    THEN extend(live.result, get_all_tasks(live.d, TRUE))
    ELSE live

\* the loop of get_tasks_by_status and a return of the list it filled
return_tasks_by_status(found, status) ==
    [result |-> tasks_with_status(found.result, status), d |-> found.d, raised |-> ""]

\* the loop of get_tasks_by_status, which fills tasks_by_status, and the
\* return of the list tasks; a task without a status object raises
\* AttributeError in the loop
return_tasks(found, status) ==
    IF \E k \in 1..Len(found.result) : found.result[k].status = None
    THEN [result |-> << >>, d |-> found.d, raised |-> "AttributeError"]
    ELSE [result |-> found.result, d |-> found.d, raised |-> ""]

\* get_tasks_by_status that returns the filtered list
get_tasks_by_status_Filtered(d, status) ==
    return_tasks_by_status(tasks_searched(get_all_tasks(d, FALSE), status), status)

\* Task.get_tasks_by_status
get_tasks_by_status(d, status) ==
    return_tasks(tasks_searched(get_all_tasks(d, FALSE), status), status)

\* the documents a task id may have in a collection: valid, with a field that
\* fails validation, or with a status that fails validation
StoredStatus(id, st, inv) == [TaskStatus_new(id) EXCEPT !.status = st, !.invalid = inv]
StoredInLive(id) ==
    {Task_new(id, Some(StoredStatus(id, ALLOCATED, {}))),
     Task_new(id, Some(StoredStatus(id, RUNNING, {}))),
     [Task_new(id, Some(StoredStatus(id, ALLOCATED, {}))) EXCEPT
          !.invalid = {"schedule"}, !.schedule = Some(LegacySchedule)],
     Task_new(id, Some(StoredStatus(id, ALLOCATED, {"progress"})))}
StoredInArchive(id) ==
    {Task_new(id, Some(StoredStatus(id, FINISHED, {}))),
     Task_new(id, Some(StoredStatus(id, ABORTED, {}))),
     [Task_new(id, Some(StoredStatus(id, FINISHED, {}))) EXCEPT
          !.invalid = {"schedule"}, !.schedule = Some(LegacySchedule)],
     Task_new(id, Some(StoredStatus(id, FINISHED, {"progress"})))}

\* every task id is absent, live or archived; a status document is stored
\* next to its task
PlacedDocs(id) ==
    {[where |-> "absent", doc |-> Task_new(id, None)]}
       \cup {[where |-> "live", doc |-> t] : t \in StoredInLive(id)}
       \cup {[where |-> "archive", doc |-> t] : t \in StoredInArchive(id)}

Placements ==
    {p \in [TaskIds -> UNION {PlacedDocs(i) : i \in TaskIds}] :
        \A i \in TaskIds : p[i] \in PlacedDocs(i)}

StoreOf(p) ==
    LET live == {i \in TaskIds : p[i].where = "live"}
        arch == {i \in TaskIds : p[i].where = "archive"}
    IN  [EmptyDb EXCEPT !.task = [i \in live |-> p[i].doc],
                        !.task_status = [i \in live |-> p[i].doc.status[1]],
                        !.task_archive = [i \in arch |-> p[i].doc],
                        !.task_status_archive = [i \in arch |-> p[i].doc.status[1]]]

InitStored ==
    /\ mem = None
    /\ terminated = {}
    /\ timetable = NoTimetable
    /\ mem2 = None
    /\ default_tasks = << >>
    /\ api = NoApi
    /\ \E p \in Placements : db = StoreOf(p)
    /\ last = [op |-> "init", args |-> NoArgs, raised |-> "", pre_mem |-> None,
               pre_db |-> EmptyDb, prev_op |-> "init", prev_raised |-> "", n |-> 0,
               result |-> None]

StatusLists == {{ALLOCATED}, {FINISHED}, {RUNNING, ABORTED}}

ReadArchivedTask ==
    /\ last.n < MaxReads
    /\ \E id \in TaskIds :
         LET r == get_archived_task_validated(db, id)
         IN  Lookup("get_archived_task", [NoArgs EXCEPT !.task_id = Some(id)],
                    r.d, r.result, r.raised)

GetAllTasks ==
    /\ last.n < MaxReads
    /\ LET r == get_all_tasks(db, FALSE)
       IN  Lookup("get_all_tasks", NoArgs, r.d, r.result, "")

GetTasksByStatus ==
    /\ last.n < MaxReads
    /\ \E status \in StatusLists :
         LET r == get_tasks_by_status(db, status)
         IN  Lookup("get_tasks_by_status", [NoArgs EXCEPT !.status = status],
                    r.d, r.result, r.raised)

NextStored ==
    \/ ReadArchivedTask
    \/ GetAllTasks
    \/ GetTasksByStatus

SpecStored == InitStored /\ [][NextStored]_vars

----------------------------------------------------------------------------
(* Tasks that name a parent task, and the chain of archived ancestors       *)

\* number of task ids the callers pass to create_new
MaxChain == 3

\* number of calls in one behaviour of parent lookups
MaxParentOps == 7

ChainIds == 1..MaxChain

\* Task.create_new(task_id=..., parent_task_id=...)
create_new_child(d, task_id, parent_task_id) ==
    LET s == TaskStatus_new(task_id)
        t == [Task_new(task_id, Some(s)) EXCEPT !.parent_task_id = parent_task_id]
    IN  Ret(t, Task_save(t, TaskStatus_save(s, d)))

\* Task.get_parent_tasks(tasks): the archived parent is appended to tasks and
\* asked for its own parents; a parent that is not in the archive ends the
\* search, any other exception leaves the method
RECURSIVE get_parent_tasks(_, _, _)
parent_found(r, tasks) ==
    IF r.raised = "DoesNotExist" THEN [result |-> tasks, d |-> r.d, raised |-> ""]
    ELSE IF r.raised # "" THEN [result |-> tasks, d |-> r.d, raised |-> r.raised]
    ELSE get_parent_tasks(r.d, r.result[1], Append(tasks, r.result[1]))
get_parent_tasks(d, t, tasks) ==
    IF t.parent_task_id = None THEN [result |-> tasks, d |-> d, raised |-> ""]
    ELSE parent_found(get_archived_task_validated(d, t.parent_task_id[1]), tasks)

\* the tasks a caller can hold an object of: live or archived
StoredTasks(d) ==
    {d.task[i] : i \in DOMAIN d.task} \cup {d.task_archive[i] : i \in DOMAIN d.task_archive}

CreateChild ==
    /\ last.n < MaxParentOps
    /\ \E id \in ChainIds \ UsedIds :
         \E parent \in {None} \cup {Some(i) : i \in UsedIds} :
            Lookup("create_new",
                   [NoArgs EXCEPT !.task_id = Some(id), !.parent_task_id = parent],
                   create_new_child(db, id, parent).d, None, "")

\* update_status(FINISHED) on a task read from the live collection
FinishTask ==
    /\ last.n < MaxParentOps
    /\ \E id \in DOMAIN db.task :
         Lookup("update_status",
                [NoArgs EXCEPT !.task_id = Some(id), !.status = FINISHED],
                update_status(db.task[id], db, FINISHED).d, None, "")

\* get_parent_tasks() on a task object, without an argument: tasks is the
\* list object made when the method was defined, which the call appends to
\* and returns
GetParentTasks ==
    /\ last.n < MaxParentOps
    /\ \E t \in StoredTasks(db) :
         LET r == get_parent_tasks(db, t, default_tasks)
         IN  /\ db' = r.d
             /\ default_tasks' = r.result
             /\ last' = [op |-> "get_parent_tasks",
                         args |-> [NoArgs EXCEPT !.task_id = Some(t.task_id)],
                         raised |-> r.raised, pre_mem |-> Some(t), pre_db |-> db,
                         prev_op |-> last.op, prev_raised |-> last.raised,
                         n |-> last.n + 1,
                         result |-> IF r.raised = "" THEN Some(r.result) ELSE None]
             /\ UNCHANGED <<mem, terminated, timetable, mem2, api>>

NextParents ==
    \/ CreateChild
    \/ FinishTask
    \/ GetParentTasks

SpecParents == Init /\ [][NextParents]_vars

----------------------------------------------------------------------------
(* The MQTT and Zyre interfaces: callbacks, the receive queue, process_msgs *)

\* number of messages the middleware hands to the receive callback
MaxMessages == 3

\* number of register_callback calls
MaxRegistrations == 2

\* number of process_msgs calls
MaxRuns == 2

\* subtopics (MQTT) and message types (Zyre) the interface is configured for
Keys == {"order", "state"}

\* callback functions; the first two are different functions with one __name__
Functions == {"planner.task_cb", "monitor.task_cb", "monitor.state_cb"}
FunctionName(f) == IF f = "monitor.state_cb" THEN "state_cb" ELSE "task_cb"

\* topics of messages the broker delivers, as manufacturer/serial_number/subtopic
Topics == {<<"kelo", "r1", "order">>, <<"kelo", "r1", "state">>, <<"kelo", "r1", "factsheet">>}

\* payloads: a JSON document and a text that is not JSON
Payloads == {"{}", "offline"}

\* json.loads
json_loads(payload) ==
    IF payload = "{}" THEN Found("dict")
    ELSE [NotFound EXCEPT !.raised = "JSONDecodeError"]

\* what the Zyre node hands to receive_msg_cb: a message that converts to a
\* dictionary with a header type, or one that does not convert
ZyreContents == {[dict |-> TRUE, type |-> "order"], [dict |-> TRUE, type |-> "state"],
                 [dict |-> TRUE, type |-> "factsheet"], [dict |-> FALSE, type |-> ""]}

\* "subtopic in msg.topic": for the topics above a subtopic is a substring of
\* the topic exactly when it is one of its parts
in_topic(subtopic, topic) == \E k \in 1..Len(topic) : topic[k] = subtopic

\* register_callback(function, subtopic) / register_callback(function, msg_type)
register_callback(a, function, key) ==
    [a EXCEPT !.functions = Put(@, FunctionName(function), function),
              !.callback_dict = Put(@, key, FunctionName(function)),
              !.registered_for = Put(@, key, function),
              !.registered = @ + 1]

\* Queue.put of the message received as number a.received + 1
queue_put(a, key, payload) ==
    [a EXCEPT !.queue = Append(@, [id |-> a.received + 1, key |-> key,
                                   payload |-> payload,
                                   while_running |-> a.running]),
              !.accepted = @ \cup {a.received + 1},
              !.returned = FALSE,
              !.received = @ + 1]

\* MQTTInterface.on_message: queued when a configured subtopic is in the topic
on_message(a, topic, payload) ==
    IF \E subtopic \in Keys : in_topic(subtopic, topic)
    THEN queue_put(a, topic[Len(topic)], payload)
    ELSE [a EXCEPT !.received = @ + 1]

\* ZyreInterface.receive_msg_cb: dropped when it is no dictionary or its type
\* is not among the message types of the node
receive_msg_cb(a, msg_content) ==
    IF ~msg_content.dict \/ msg_content.type \notin Keys
    THEN [a EXCEPT !.received = @ + 1]
    ELSE queue_put(a, msg_content.type, "{}")

\* the function last registered for the key of a message, "" when none was
registered_function(a, msg) ==
    IF msg.key \in DOMAIN a.registered_for THEN a.registered_for[msg.key] ELSE ""

\* the two try blocks of process_msgs for a message: without a name in
\* callback_dict an error is logged, else the attribute of that name is called
dispatch(a, msg) ==
    IF msg.key \notin DOMAIN a.callback_dict
    THEN [id |-> msg.id, key |-> msg.key, payload |-> msg.payload,
          while_running |-> msg.while_running,
          outcome |-> "no callback", by |-> "",
          registered |-> registered_function(a, msg)]
    ELSE [id |-> msg.id, key |-> msg.key, payload |-> msg.payload,
          while_running |-> msg.while_running,
          outcome |-> "called", by |-> a.functions[a.callback_dict[msg.key]],
          registered |-> registered_function(a, msg)]

\* one iteration of the loop of process_msgs: Queue.get, then for MQTT the
\* payload is parsed, which raises out of process_msgs when it is no JSON
process_next(a) ==
    LET msg == Head(a.queue)
    IN  IF a.kind = "mqtt" /\ json_loads(msg.payload).raised # ""
        THEN [a EXCEPT !.queue = Tail(@), !.running = FALSE,
                       !.handled = Append(@, [id |-> msg.id, key |-> msg.key,
                                              payload |-> msg.payload,
                                              while_running |-> msg.while_running,
                                              outcome |-> json_loads(msg.payload).raised,
                                              by |-> "",
                                              registered |-> registered_function(a, msg)])]
        ELSE [a EXCEPT !.queue = Tail(@), !.handled = Append(@, dispatch(a, msg))]

InitMessages ==
    /\ mem = None
    /\ db = EmptyDb
    /\ terminated = {}
    /\ timetable = NoTimetable
    /\ mem2 = None
    /\ default_tasks = << >>
    /\ \E kind \in {"mqtt", "zyre"} : api = [NoApi EXCEPT !.kind = kind]
    /\ last = [op |-> "init", args |-> NoArgs, raised |-> "", pre_mem |-> None,
               pre_db |-> EmptyDb, prev_op |-> "init", prev_raised |-> "", n |-> 0,
               result |-> None]

RegisterCallback ==
    /\ ~api.running
    /\ api.registered < MaxRegistrations
    /\ \E function \in Functions, key \in Keys :
         api' = register_callback(api, function, key)
    /\ UNCHANGED <<mem, db, last, terminated, timetable, mem2, default_tasks>>

\* the MQTT client's thread calls on_message
OnMessage ==
    /\ api.kind = "mqtt"
    /\ api.received < MaxMessages
    /\ \E topic \in Topics, payload \in Payloads : api' = on_message(api, topic, payload)
    /\ UNCHANGED <<mem, db, last, terminated, timetable, mem2, default_tasks>>

\* the Zyre node's thread calls receive_msg_cb
ReceiveMsgCb ==
    /\ api.kind = "zyre"
    /\ api.received < MaxMessages
    /\ \E msg_content \in ZyreContents : api' = receive_msg_cb(api, msg_content)
    /\ UNCHANGED <<mem, db, last, terminated, timetable, mem2, default_tasks>>

\* process_msgs is called
ProcessMsgs ==
    /\ ~api.running
    /\ api.runs < MaxRuns
    /\ api' = [api EXCEPT !.running = TRUE, !.returned = FALSE, !.runs = @ + 1]
    /\ UNCHANGED <<mem, db, last, terminated, timetable, mem2, default_tasks>>

\* "while not self.queue.empty()" finds a message: one iteration
ProcessNext ==
    /\ api.running
    /\ api.queue # << >>
    /\ api' = process_next(api)
    /\ UNCHANGED <<mem, db, last, terminated, timetable, mem2, default_tasks>>

\* "while not self.queue.empty()" finds the queue empty: process_msgs returns
ProcessReturn ==
    /\ api.running
    /\ api.queue = << >>
    /\ api' = [api EXCEPT !.running = FALSE, !.returned = TRUE]
    /\ UNCHANGED <<mem, db, last, terminated, timetable, mem2, default_tasks>>

NextMessages ==
    \/ RegisterCallback
    \/ OnMessage
    \/ ReceiveMsgCb
    \/ ProcessMsgs
    \/ ProcessNext
    \/ ProcessReturn

SpecMessages == InitMessages /\ [][NextMessages]_vars

----------------------------------------------------------------------------
(* Properties *)

\* the operation that produced this state ran on an object and returned normally
Returned(op) == last.op = op /\ last.raised = "" /\ last.pre_mem # None

\* the status value of a task object or document ("" when it has no status object)
StatusOf(t) == IF t.status = None THEN "" ELSE t.status[1].status

\* the temporal constraints of a task object
ConstraintsOf(t) == <<t.start, t.work_time, t.travel_time, t.alternative_timeslot>>

\* every stored document of task id
StoredStatuses(id) ==
    {StatusOf(d[id]) : d \in {c \in {db.task, db.task_archive} : id \in DOMAIN c}}
      \cup {d[id].status : d \in {c \in {db.task_status, db.task_status_archive} : id \in DOMAIN c}}

\* C1: after update_status(s) with a terminal s on a task that was in the live
\* store, a live get_task misses, get_archived_task returns the task with status s,
\* and the TaskStatus document is out of "task_status" and in "task_status_archive"
C1_TerminalStatusArchives ==
    (/\ Returned("update_status")
     /\ last.args.status \in archived_status
     /\ get_task(last.pre_db, last.pre_mem[1].task_id) # None)
    => LET id == mem[1].task_id
       IN  /\ get_task(db, id) = None
           /\ get_archived_task(db, id) = Some(mem[1])
           /\ StatusOf(get_archived_task(db, id)[1]) = last.args.status
           /\ get_task_status(db, id) = None
           /\ get_archived_task_status(db, id) # None
           /\ get_archived_task_status(db, id)[1].status = last.args.status

C1_Witness ==
    /\ Returned("update_status")
    /\ last.args.status = OVERDUE
    /\ get_task(last.pre_db, last.pre_mem[1].task_id) # None
    /\ get_task_status(last.pre_db, last.pre_mem[1].task_id) # None
    /\ Len(mem[1].plan) > 0

\* C2: no task id is in the live task collection and in the task archive at once
C2_NoLiveAndArchived ==
    \A id \in TaskIds : ~(id \in DOMAIN db.task /\ id \in DOMAIN db.task_archive)

\* C3: once update_status has set a terminal status on a task, no stored document
\* of that task carries a non-terminal status
C3_TerminalIsOneWay ==
    \A id \in terminated : StoredStatuses(id) \subseteq archived_status

\* C4: assign_robots([r]) with default arguments on a task just created by
\* create_new returns with status ALLOCATED and assigned_robots = [r], both stored
C4_AssignAfterCreate ==
    (/\ last.op = "assign_robots"
     /\ last.prev_op = "create_new"
     /\ last.args.save_in_db
     /\ Len(last.args.robot_ids) = 1)
    => /\ last.raised = ""
       /\ StatusOf(mem[1]) = ALLOCATED
       /\ mem[1].assigned_robots = last.args.robot_ids
       /\ get_task(db, mem[1].task_id) = Some(mem[1])

\* C5: update_plan(p) appends p as the last stage and leaves status PLANNED;
\* schedule_task(d, s, f) sets schedule to (d, s, f) and leaves status SCHEDULED;
\* both store the result in the live collections and leave assigned_robots and
\* the constraints as they were
C5_PlanAndScheduleEffects ==
    /\ Returned("update_plan")
       => LET pre == last.pre_mem[1]
              t == mem[1]
          IN  /\ t.plan = Append(pre.plan, last.args.task_plan[1])
              /\ StatusOf(t) = PLANNED
              /\ t.schedule = pre.schedule
              /\ t.assigned_robots = pre.assigned_robots
              /\ ConstraintsOf(t) = ConstraintsOf(pre)
              /\ get_task(db, t.task_id) = Some(t)
              /\ get_task_status(db, t.task_id) = t.status
    /\ Returned("schedule_task")
       => LET pre == last.pre_mem[1]
              t == mem[1]
              s == last.args.schedule[1]
          IN  /\ t.schedule = Some([departure_time |-> s[1], start_time |-> s[2],
                                    finish_time |-> s[3]])
              /\ StatusOf(t) = SCHEDULED
              /\ t.plan = pre.plan
              /\ t.assigned_robots = pre.assigned_robots
              /\ ConstraintsOf(t) = ConstraintsOf(pre)
              /\ get_task(db, t.task_id) = Some(t)
              /\ get_task_status(db, t.task_id) = t.status

C5_Witness ==
    /\ Returned("schedule_task")
    /\ Len(mem[1].plan) > 0
    /\ mem[1].assigned_robots # << >>
    /\ StatusOf(last.pre_mem[1]) = ALLOCATED

\* what unassign_robots does apart from travel_time, on a task with a plan stage
UnassignFrame(pre, t) ==
    /\ t.assigned_robots = << >>
    /\ t.plan[1].robot = None
    /\ StatusOf(t) = UNALLOCATED
    /\ t.work_time = pre.work_time
    /\ t.start = pre.start
    /\ Len(t.plan) = Len(pre.plan)
    /\ \A i \in 1..Len(t.plan) : t.plan[i].actions = pre.plan[i].actions
    /\ \A i \in 2..Len(t.plan) : t.plan[i] = pre.plan[i]

\* C6 as stated: unassign_robots on a task with a plan stage empties
\* assigned_robots, unsets plan[0].robot, replaces travel_time by a zero-mean
\* estimate and sets status UNALLOCATED; work_time, start and the actions stay
C6_UnassignZeroMean ==
    (Returned("unassign_robots") /\ Len(last.pre_mem[1].plan) > 0)
    => /\ UnassignFrame(last.pre_mem[1], mem[1])
       /\ mem[1].travel_time.mean = Some(0)

\* C6 amended: as above, but travel_time becomes a fresh EstimatedDuration whose
\* mean and variance are unset
C6_UnassignFreshEstimate ==
    (Returned("unassign_robots") /\ Len(last.pre_mem[1].plan) > 0)
    => /\ UnassignFrame(last.pre_mem[1], mem[1])
       /\ mem[1].travel_time = EstimatedDuration_new
       /\ mem[1].travel_time.mean = None
       /\ get_task(db, mem[1].task_id) = Some(mem[1])

C6_Witness ==
    /\ Returned("unassign_robots")
    /\ Len(last.pre_mem[1].plan) > 0
    /\ last.pre_mem[1].assigned_robots # << >>
    /\ last.pre_mem[1].plan[1].robot # None
    /\ StatusOf(last.pre_mem[1]) = ALLOCATED

RobotsAgree(t) ==
    (t.assigned_robots # << >> /\ Len(t.plan) > 0 /\ t.plan[1].robot # None)
    => t.plan[1].robot = Some(t.assigned_robots[1])

\* C8: whenever assigned_robots is non-empty and plan[0].robot is set,
\* assigned_robots[0] = plan[0].robot
C8_AssignedRobotMatchesPlan ==
    /\ mem # None => RobotsAgree(mem[1])
    /\ \A id \in DOMAIN db.task : RobotsAgree(db.task[id])

\* the place of a status in the chain UNALLOCATED -> ... -> RUNNING -> terminal
Rank(status) ==
    CASE status = UNALLOCATED -> 0
      [] status = ALLOCATED -> 1
      [] status = PLANNED -> 2
      [] status = SCHEDULED -> 3
      [] status = DISPATCHED -> 4
      [] status = RUNNING -> 5
      [] OTHER -> 6

\* C9: assign_robots, update_plan, schedule_task and update_status never move a
\* task's status to an earlier state of the chain
C9_OnlyUnassignGoesBack ==
    (/\ last.op \in {"assign_robots", "update_plan", "schedule_task", "update_status"}
     /\ last.pre_mem # None
     /\ last.pre_mem[1].status # None)
    => Rank(StatusOf(mem[1])) >= Rank(StatusOf(last.pre_mem[1]))

\* C10: update_status(s) with a non-terminal s leaves s in the stored Task's
\* embedded status and in the stored TaskStatus document, whatever the status was
\* before (none included), and a second update_status(s) changes nothing stored
C10_UpdateStatusRewrites ==
    (Returned("update_status") /\ last.args.status \notin archived_status)
    => LET id == mem[1].task_id
       IN  /\ get_task(db, id) # None
           /\ StatusOf(get_task(db, id)[1]) = last.args.status
           /\ get_task_status(db, id) # None
           /\ get_task_status(db, id)[1].status = last.args.status
           /\ (last.prev_op = "update_status"
                 /\ StatusOf(last.pre_mem[1]) = last.args.status)
              => (db = last.pre_db /\ mem = last.pre_mem)

C10_Witness ==
    /\ Returned("update_status")
    /\ last.args.status = RUNNING
    /\ last.prev_op = "update_status"
    /\ StatusOf(last.pre_mem[1]) = RUNNING
    /\ db = last.pre_db

\* update_status(s) reached a task object that had no status object yet
C10_NoStatusCase ==
    /\ Returned("update_status")
    /\ last.args.status = DISPATCHED
    /\ last.pre_mem[1].status = None

\* C22: archive() called a second time on a task that the call before it
\* archived leaves the archive as the first call left it (one entry for the
\* id, same content) and the live collection without the id.
C22_SecondArchiveChangesNothing ==
    (Returned("archive") /\ last.prev_op = "archive" /\ last.prev_raised = "")
    => LET id == mem[1].task_id
       IN  /\ db.task_archive = last.pre_db.task_archive
           /\ id \in DOMAIN db.task_archive
           /\ db.task_archive[id] = mem[1]
           /\ id \notin DOMAIN db.task

\* a task that was live is archived twice in a row
C22_Witness ==
    /\ Returned("archive")
    /\ last.prev_op = "archive"
    /\ last.n >= 3
    /\ mem[1].task_id \in DOMAIN db.task_archive
    /\ mem[1].status # None

----------------------------------------------------------------------------
(* Properties of creating a task and editing its constraints, under SpecEdit *)

\* C23: create_new, and from_request which goes through it, give the task an
\* id no document and no object carries, store a TaskStatus with that id in
\* "task_status" and the task in "task", with status UNALLOCATED and
\* delayed, early and paused all false.
C23_CreateStoresTaskAndStatus ==
    (last.op \in {"create_new", "from_request"}) =>
        LET id == last.args.task_id[1]
        IN  /\ last.raised = ""
            /\ id \notin (DOMAIN last.pre_db.task) \cup (DOMAIN last.pre_db.task_archive)
                          \cup (DOMAIN last.pre_db.task_status)
                          \cup (DOMAIN last.pre_db.task_status_archive)
            /\ last.pre_mem # None => last.pre_mem[1].task_id # id
            /\ id \in DOMAIN db.task_status
            /\ id \in DOMAIN db.task
            /\ \A s \in {db.task_status[id], db.task[id].status[1]} :
                  /\ s.task_id = id
                  /\ s.status = UNALLOCATED
                  /\ ~s.delayed /\ ~s.early /\ ~s.paused
            /\ mem = Some(db.task[id])

\* a second task was made from a request while another task was stored
C23_Witness ==
    /\ Returned("from_request")
    /\ last.args.task_id[1] \in DOMAIN db.task
    /\ db.task[last.args.task_id[1]].request # None
    /\ last.pre_mem[1].task_id \in DOMAIN db.task

\* the window (earliest, latest) the last call was given
GivenWindow ==
    [earliest_time |-> Some(last.args.window[1][1]),
     latest_time |-> Some(last.args.window[1][2])]

\* C26: update_alternative_start_time(e, l) works on a task without an
\* alternative timeslot: it creates one, sets its start to exactly (e, l)
\* and leaves the primary start constraint as it was;
\* update_start_constraint(e, l) overwrites the primary window only and
\* leaves an alternative timeslot as it was.
C26_AlternativeAndPrimaryWindows ==
    /\ (last.op = "update_alternative_start_time" /\ last.pre_mem # None) =>
          /\ last.pre_mem[1].alternative_timeslot = None => last.raised = ""
          /\ last.raised = "" =>
                /\ mem[1].alternative_timeslot # None
                /\ mem[1].alternative_timeslot[1].start = Some(GivenWindow)
                /\ mem[1].start = last.pre_mem[1].start
    /\ Returned("update_start_constraint") =>
          /\ mem[1].start = GivenWindow
          /\ mem[1].alternative_timeslot = last.pre_mem[1].alternative_timeslot

\* the alternative timeslot was created by the call, with a window other than
\* the primary one
C26_Witness ==
    /\ Returned("update_alternative_start_time")
    /\ last.pre_mem[1].alternative_timeslot = None
    /\ mem[1].alternative_timeslot[1].start = Some(GivenWindow)
    /\ mem[1].start # GivenWindow

DeferrableUpdates == {"update_work_time", "update_travel_time",
                      "update_start_constraint", "update_alternative_start_time"}

\* C27: with save_in_db=False the four update methods change the object in
\* memory only and leave the store as it was; the next save() writes the
\* object with all deferred changes; with save_in_db=True the call itself
\* leaves the stored task equal to the object.
C27_DeferredPersistence ==
    /\ (last.op \in DeferrableUpdates /\ last.raised = "" /\ last.pre_mem # None) =>
          IF last.args.save_in_db
          THEN mem[1].task_id \in DOMAIN db.task /\ db.task[mem[1].task_id] = mem[1]
          ELSE db = last.pre_db
    /\ Returned("save") =>
          mem[1].task_id \in DOMAIN db.task /\ db.task[mem[1].task_id] = mem[1]

\* save() wrote two deferred changes at once: work time and start window
C27_Witness ==
    /\ Returned("save")
    /\ last.prev_op \in DeferrableUpdates
    /\ mem[1].task_id \in DOMAIN last.pre_db.task
    /\ last.pre_db.task[mem[1].task_id].work_time # mem[1].work_time
    /\ last.pre_db.task[mem[1].task_id].start # mem[1].start
    /\ db.task[mem[1].task_id] = mem[1]

\* C28: for every pair (earliest, latest), also with earliest > latest,
\* TimepointConstraint.update followed by a read of earliest_time and
\* latest_time gives back exactly that pair, in that order.
C28_WindowRoundTrip ==
    /\ Returned("update_start_constraint") =>
          /\ mem[1].start.earliest_time = Some(last.args.window[1][1])
          /\ mem[1].start.latest_time = Some(last.args.window[1][2])
    /\ Returned("update_alternative_start_time") =>
          /\ mem[1].alternative_timeslot[1].start[1].earliest_time
                = Some(last.args.window[1][1])
          /\ mem[1].alternative_timeslot[1].start[1].latest_time
                = Some(last.args.window[1][2])

\* the pair written had earliest > latest
C28_Witness ==
    /\ Returned("update_start_constraint")
    /\ last.args.window[1][1] > last.args.window[1][2]
    /\ mem[1].start.earliest_time = Some(last.args.window[1][1])

----------------------------------------------------------------------------
(* Properties of lookups and of archiving actions, under SpecLookup *)

\* what a lookup with fallback must give for id: the live document, else the
\* archived one, else DoesNotExist
LiveElseArchived(live, archived, id) ==
    IF id \in DOMAIN live THEN Found(live[id])
    ELSE IF id \in DOMAIN archived THEN Found(archived[id]) ELSE NotFound

\* the documents of the ids of a list that are in a collection, in list order
DocsOf(ids, coll) ==
    LET present == SelectSeq(ids, LAMBDA i : i \in DOMAIN coll)
    IN  [k \in 1..Len(present) |-> coll[present[k]]]

\* the ids of a list that are not in a collection, in list order
Missing(ids, coll) == SelectSeq(ids, LAMBDA i : i \notin DOMAIN coll)

\* C21: Action.get_action and ActionProgress.get_action_progress give the live
\* record when there is one, otherwise the archived one, and raise
\* DoesNotExist only when the id is in neither collection;
\* get_tasks_by_request resolves the request and each of its task ids in the
\* same way and gives the live tasks and the archived tasks as two lists.
C21_LookupsFallBackToArchive ==
    /\ last.op = "get_action" =>
          [result |-> last.result, raised |-> last.raised]
             = LiveElseArchived(db.action, db.action_archive, last.args.action_id[1])
    /\ last.op = "get_action_progress" =>
          [result |-> last.result, raised |-> last.raised]
             = LiveElseArchived(db.action_progress, db.action_progress_archive,
                                last.args.action_id[1])
    /\ last.op = "get_tasks_by_request" =>
          LET request == LiveElseArchived(db.task_request, db.task_request_archive,
                                          last.args.request_id[1])
              ids == request.result[1].task_ids
          IN  IF request.raised # "" THEN last.raised = "DoesNotExist"
              ELSE IF \E k \in 1..Len(ids) :
                         ids[k] \notin (DOMAIN db.task) \cup (DOMAIN db.task_archive)
                   THEN last.raised = "DoesNotExist"
                   ELSE /\ last.raised = ""
                        /\ last.result.tasks = DocsOf(ids, db.task)
                        /\ last.result.archived_tasks
                              = DocsOf(Missing(ids, db.task), db.task_archive)

\* the tasks of an archived or live request came back in two non-empty lists
C21_Witness ==
    /\ last.op = "get_tasks_by_request"
    /\ last.raised = ""
    /\ Len(last.result.tasks) = 1
    /\ Len(last.result.archived_tasks) = 1

\* get_action gave back an archived action
C21_ArchivedActionFound ==
    /\ last.op = "get_action"
    /\ last.raised = ""
    /\ last.args.action_id[1] \notin DOMAIN db.action

\* C29: Action.archive() moves the action: it is no longer in the live
\* collection and get_actions does not give it, it is in "action_archive"
\* under the same id and Action.get_action(id) still finds it; after
\* archiving every action that get_actions gave, none of them is live.
C29_ArchiveMovesAction ==
    /\ last.op = "Action.archive" =>
          LET id == last.args.action_id[1]
          IN  /\ id \notin DOMAIN db.action
              /\ \A type \in TypeQueries :
                    \A a \in Action_get_actions(db, type) : a.action_id # id
              /\ id \in DOMAIN db.action_archive
              /\ db.action_archive[id].action_id = id
              /\ id \in DOMAIN last.pre_db.action =>
                    db.action_archive[id] = last.pre_db.action[id]
              /\ Action_get_action(db, id) = Found(db.action_archive[id])
    /\ last.op = "archive_each" =>
          \A a \in last.result :
             /\ a.action_id \notin DOMAIN db.action
             /\ a.action_id \in DOMAIN db.action_archive
    /\ (last.op = "archive_each" /\ last.args.type = None) =>
          /\ last.result = {last.pre_db.action[i] : i \in DOMAIN last.pre_db.action}
          /\ db.action = Empty

\* a live action was archived while another one stayed live
C29_Witness ==
    /\ last.op = "Action.archive"
    /\ last.args.action_id[1] \in DOMAIN last.pre_db.action
    /\ last.args.action_id[1] \in DOMAIN db.action_archive
    /\ db.action # Empty

----------------------------------------------------------------------------
(* Properties of the status flags, under SpecFlags *)

\* the last call was a status transition to a terminal status
TerminalTransition == last.op = "update_status" /\ last.args.status \in archived_status

\* the paused flag of the caller's task, and of its stored copies where they exist
PausedEverywhere ==
    /\ mem[1].status[1].paused
    /\ mem[1].task_id \in DOMAIN db.task_status => db.task_status[mem[1].task_id].paused
    /\ (mem[1].task_id \in DOMAIN db.task /\ db.task[mem[1].task_id].status # None) =>
          db.task[mem[1].task_id].status[1].paused

\* C25: pause() sets paused to true and continue_() sets it to false, neither
\* changes status.status; once the flag is true it stays true through every
\* non-terminal status transition and every update_progress call, until
\* continue_() is called.
C25_PausedUntilContinued ==
    [][/\ (last'.op \in {"pause", "continue_"} /\ last'.raised = "") =>
             /\ mem'[1].status[1].paused = (last'.op = "pause")
             /\ mem'[1].status[1].status = mem[1].status[1].status
             /\ db'.task[mem'[1].task_id].status[1] = mem'[1].status[1]
       /\ (/\ mem # None
           /\ mem[1].status # None
           /\ mem[1].status[1].paused
           /\ last'.op \in {"update_status", "update_progress"}
           /\ ~TerminalTransition') => PausedEverywhere'
      ]_vars

\* a progress update went through on a paused task and left it paused
C25_Witness ==
    /\ Returned("update_progress")
    /\ last.pre_mem[1].status[1].paused
    /\ mem[1].status[1].progress # None
    /\ PausedEverywhere

\* C32: clear_recovery_method sets recovery_method to none and writes the
\* task to the store that matches its status: a task with a terminal status
\* goes to "task_archive" and gets no live record, any other task is saved
\* in "task".
C32_ClearWritesMatchingStore ==
    Returned("clear_recovery_method") =>
        /\ mem[1].status[1].recovery_method = None
        /\ IF mem[1].status[1].status \in archived_status
           THEN /\ mem[1].task_id \in DOMAIN db.task_archive
                /\ db.task_archive[mem[1].task_id] = mem[1]
                /\ mem[1].task_id \notin DOMAIN last.pre_db.task =>
                      mem[1].task_id \notin DOMAIN db.task
           ELSE /\ mem[1].task_id \in DOMAIN db.task
                /\ db.task[mem[1].task_id] = mem[1]

\* for a task whose status is not terminal the claim holds
C32_NonTerminalSavedLive ==
    (Returned("clear_recovery_method") /\ mem[1].status[1].status \notin archived_status) =>
        /\ mem[1].status[1].recovery_method = None
        /\ mem[1].task_id \in DOMAIN db.task
        /\ db.task[mem[1].task_id] = mem[1]

PersistingFlagOps == {"update_status", "pause", "continue_", "set_recovery_method",
                      "delayed", "early"}

\* the stored task's embedded status and the standalone status agree
StatusCopiesAgree ==
    LET id == mem[1].task_id
    IN  (id \in DOMAIN db.task /\ id \in DOMAIN db.task_status) =>
           /\ db.task[id].status # None
           /\ \A f \in {"status", "paused", "delayed", "early", "recovery_method"} :
                 db.task[id].status[1][f] = db.task_status[id][f]

\* C30: after update_status to a non-terminal status, pause, continue_,
\* set_recovery_method and the delayed and early setters, the status embedded
\* in the stored Task and the standalone TaskStatus agree on status, paused,
\* delayed, early and recovery_method.
C30_StatusCopiesAgree ==
    (last.op \in PersistingFlagOps /\ last.raised = "" /\ ~TerminalTransition)
        => StatusCopiesAgree

\* the operations that save through Task.save leave the two copies in agreement
C30_AgreeAfterTaskSave ==
    (last.op \in PersistingFlagOps \ {"delayed", "early"} /\ last.raised = ""
     /\ ~TerminalTransition) => StatusCopiesAgree

----------------------------------------------------------------------------
(* Properties of two callers saving one task, under SpecTwo *)

\* the last call saved the caller's task: save(), or an update with save_in_db
Saved ==
    /\ last.raised = ""
    /\ \/ last.op = "save"
       \/ last.op \in DeferrableUpdates /\ last.args.save_in_db

\* C24: when two callers hold copies of the same task, change different
\* fields and save, no save reports a conflict and after each save the stored
\* task equals the saver's object in every field: the change the other
\* caller had stored before is gone.
C24_LastSaveWins ==
    /\ last.op = "save" => last.raised = ""
    /\ Saved =>
          /\ Obj(last.args.caller)[1].task_id \in DOMAIN db.task
          /\ db.task[Obj(last.args.caller)[1].task_id] = Obj(last.args.caller)[1]

\* the second caller's save replaced the work time the first caller had stored
\* and wrote its own start window; the first caller still holds its change
C24_Witness ==
    /\ Saved
    /\ last.args.caller = 2
    /\ mem # None
    /\ mem[1].task_id = mem2[1].task_id
    /\ last.pre_db.task[mem[1].task_id] = mem[1]
    /\ mem[1].work_time # mem2[1].work_time
    /\ mem[1].start # mem2[1].start
    /\ db.task[mem2[1].task_id] = mem2[1]
    /\ db.task[mem2[1].task_id].work_time = EstimatedDuration_new

----------------------------------------------------------------------------
(* Properties of the Task operations under store outages, under SpecOutage *)

\* update_status was just called with a terminal status on a task object
TerminalUpdate ==
    /\ last.op = "update_status"
    /\ last.args.status \in archived_status
    /\ last.pre_mem # None

\* the store was unreachable at some access the last call made or tried, the
\* first of them being access number k of the call
OutageAt(k) == last.args.outage # None /\ last.args.outage[1].from = k

\* the store was unreachable for the whole of the last call
OutageThroughout ==
    last.args.outage = Some([from |-> 1, to |-> MaxAccesses])

\* C11: update_status with a terminal status is all-or-nothing for the pair
\* of records, also when a store access fails part-way: starting from a task
\* and status that are live and not archived, no outcome has the TaskStatus
\* archived while the Task is still live, nor a record in both its live and
\* its archive collection.
C11_TerminalUpdateAllOrNothing ==
    TerminalUpdate =>
        LET id == last.pre_mem[1].task_id
        IN  (/\ id \in DOMAIN last.pre_db.task
             /\ id \in DOMAIN last.pre_db.task_status
             /\ id \notin DOMAIN last.pre_db.task_archive
             /\ id \notin DOMAIN last.pre_db.task_status_archive)
            => /\ ~(id \in DOMAIN db.task_status_archive /\ id \in DOMAIN db.task)
               /\ ~(id \in DOMAIN db.task /\ id \in DOMAIN db.task_archive)
               /\ ~(id \in DOMAIN db.task_status /\ id \in DOMAIN db.task_status_archive)

\* C12: when the store is unreachable at one of the four accesses of the two
\* archival steps of update_status(terminal status), the call raises the
\* failure; a call that returns normally has left neither record live and
\* both archived.
C12_ArchivalFailureIsRaised ==
    TerminalUpdate =>
        LET id == last.pre_mem[1].task_id
        IN  /\ (\E k \in 1..4 : OutageAt(k)) => last.raised = Unreachable
            /\ last.raised = "" =>
                 /\ id \notin DOMAIN db.task
                 /\ id \notin DOMAIN db.task_status
                 /\ id \in DOMAIN db.task_archive
                 /\ id \in DOMAIN db.task_status_archive

\* the store became unreachable after the TaskStatus was archived, while the
\* Task was being saved into the archive, and the call raised
C12_Witness ==
    /\ TerminalUpdate
    /\ OutageAt(3)
    /\ last.raised = Unreachable
    /\ last.pre_mem[1].task_id \in DOMAIN last.pre_db.task
    /\ last.pre_mem[1].task_id \in DOMAIN db.task_status_archive

\* C13: with the store unavailable, the save made by pause, continue_,
\* set_recovery_method, update_work_time, update_start_constraint and
\* update_status to a non-terminal status does not raise: the call returns
\* normally, the object in memory keeps the change and the store is left as
\* it was.
C13_SaveFailureIsSwallowed ==
    (/\ last.op \in {"pause", "continue_", "set_recovery_method", "update_work_time",
                     "update_start_constraint", "update_status"}
     /\ last.pre_mem # None
     /\ OutageThroughout
     /\ last.op = "update_status" => last.args.status \notin archived_status
     /\ last.op \in {"pause", "continue_"} => last.pre_mem[1].status # None)
    => /\ last.raised = ""
       /\ db = last.pre_db
       /\ last.op = "pause" => mem[1].status[1].paused
       /\ last.op = "continue_" => ~mem[1].status[1].paused
       /\ last.op = "set_recovery_method" =>
             mem[1].status[1].recovery_method = last.args.method
       /\ last.op = "update_work_time" =>
             \E x \in Durations :
                mem[1].work_time = EstimatedDuration_update(last.pre_mem[1].work_time, x[1], x[2])
       /\ last.op = "update_start_constraint" =>
             \E x \in Windows :
                mem[1].start = TimepointConstraint_update(last.pre_mem[1].start, x[1], x[2])
       /\ last.op = "update_status" => StatusOf(mem[1]) = last.args.status

\* the part of C13 that the code keeps: every listed operation but update_status
C13_SwallowedBySave ==
    last.op = "update_status" \/ C13_SaveFailureIsSwallowed

----------------------------------------------------------------------------
(* Properties of reads of deprecated-format documents, under SpecLegacy *)

\* the last call was Task.get_task on a live task that fails validation
ReadInvalidTask ==
    /\ last.op = "get_task"
    /\ last.args.task_id[1] \in DOMAIN last.pre_db.task
    /\ ~TaskValid(last.pre_db.task[last.args.task_id[1]])

\* Task.deprecate ran in the last call
TaskDeprecated == ReadInvalidTask \/ (last.op = "deprecate" /\ last.pre_mem # None)

\* the task object Task.deprecate ran on
DeprecatedTask ==
    IF last.op = "deprecate" THEN last.pre_mem[1]
    ELSE last.pre_db.task[last.args.task_id[1]]

\* the fields of a task that deprecate neither drops nor rewrites when they validate
KeptFields(t) == <<t.task_id, t.assigned_robots, t.plan, t.start, t.work_time,
                   t.travel_time, t.alternative_timeslot>>

\* C17: deprecating a record never raises because of a field: a field whose
\* value fails validation is dropped, every field that validates is kept,
\* and the record ends up in the archive and not in the live collection.
C17_DeprecateNeverRaises ==
    TaskDeprecated =>
        LET pre == DeprecatedTask
            id  == pre.task_id
        IN  /\ last.raised = ""
            /\ id \notin DOMAIN db.task
            /\ id \in DOMAIN db.task_archive
            /\ db.task_archive[id].invalid = {}
            /\ KeptFields(db.task_archive[id]) = KeptFields(pre)
            /\ db.task_archive[id].schedule =
                  IF "schedule" \in pre.invalid THEN None ELSE pre.schedule

\* C18: Task.get_task on a live task that fails validation deprecates it in
\* the same call: the task and its TaskStatus are gone from the live
\* collections and archived with status DEPRECATED (a missing status object
\* is created first), an embedded request that fails validation has been
\* deprecated, and the caller receives the task object.
C18_GetTaskDeprecatesInvalid ==
    ReadInvalidTask =>
        LET pre == DeprecatedTask
            id  == pre.task_id
        IN  /\ last.raised = ""
            /\ id \notin DOMAIN db.task
            /\ id \notin DOMAIN db.task_status
            /\ id \in DOMAIN db.task_archive
            /\ id \in DOMAIN db.task_status_archive
            /\ StatusOf(db.task_archive[id]) = DEPRECATED
            /\ db.task_status_archive[id].status = DEPRECATED
            /\ mem = Some(db.task_archive[id])
            /\ (pre.request # None /\ ~RequestValid(pre.request[1])) =>
                  LET q == pre.request[1].request_id
                  IN  /\ q \notin DOMAIN db.task_request
                      /\ q \in DOMAIN db.task_request_archive
                      /\ RequestValid(db.task_request_archive[q])

\* what C17 and C18 say, for the tasks whose embedded status validates or is
\* missing
DeprecatesUnlessStatusInvalid ==
    (TaskDeprecated /\ (DeprecatedTask.status = None \/ StatusValid(DeprecatedTask.status[1])))
    => /\ C17_DeprecateNeverRaises
       /\ C18_GetTaskDeprecatesInvalid

\* C19: a read that meets a record of a deprecated format handles it inside
\* the read and does not hand the caller an error: Task.get_task,
\* get_task_status, by_status and get_request alike never raise
\* ValidationError.
C19_ReadsDoNotSurfaceDeprecation ==
    last.op \in {"get_task", "get_task_status", "by_status", "get_request"}
    => last.raised # Invalid

\* TaskStatus.deprecate ran in the last call, on a status of the live collection
StatusDeprecated ==
    \/ last.op = "TaskStatus.deprecate"
    \/ /\ last.op = "get_task_status"
       /\ last.args.task_id[1] \in DOMAIN last.pre_db.task_status
       /\ ~StatusValid(last.pre_db.task_status[last.args.task_id[1]])

\* C20: after TaskStatus.deprecate() on a status of the live collection the
\* status is gone from "task_status" and stored in "task_status_archive", and
\* its task, if it was live, is archived; whether that task is valid, of a
\* deprecated format itself, or not in the live collection at all.
C20_StatusDeprecateArchivesStatus ==
    StatusDeprecated =>
        LET id == last.args.task_id[1]
        IN  /\ id \notin DOMAIN db.task_status
            /\ id \in DOMAIN db.task_status_archive
            /\ id \in DOMAIN last.pre_db.task =>
                  (id \notin DOMAIN db.task /\ id \in DOMAIN db.task_archive)

\* the one case in which TaskStatus.deprecate does move the status: its task
\* is live, fails validation and carries a status that validates (or none)
StatusArchivedThroughTask ==
    (/\ StatusDeprecated
     /\ last.args.task_id[1] \in DOMAIN last.pre_db.task
     /\ ~TaskValid(last.pre_db.task[last.args.task_id[1]])
     /\ LET t == last.pre_db.task[last.args.task_id[1]]
        IN  t.status = None \/ StatusValid(t.status[1]))
    => C20_StatusDeprecateArchivesStatus

----------------------------------------------------------------------------
(* Properties of Timetable.get_time, under SpecTimetable *)

\* the node id the last get_time call looked up (None: no node carries the tag)
QueriedNode ==
    IF \E i \in DOMAIN timetable.nodes :
          /\ timetable.nodes[i].task_id = last.task_id
          /\ timetable.nodes[i].node_type = last.node_type
    THEN get_node_id(timetable, last.task_id, last.node_type)
    ELSE None

\* positions of the links in the direction the last get_time call asked for
MatchingLinks ==
    IF QueriedNode = None THEN {}
    ELSE {i \in DOMAIN timetable.links :
            IF last.lower_bound
            THEN timetable.links[i].source = QueriedNode[1] /\ timetable.links[i].target = 0
            ELSE timetable.links[i].source = 0 /\ timetable.links[i].target = QueriedNode[1]}

\* positions of the links in the other direction between the same two nodes
OppositeLinks ==
    IF QueriedNode = None THEN {}
    ELSE {i \in DOMAIN timetable.links :
            IF last.lower_bound
            THEN timetable.links[i].source = 0 /\ timetable.links[i].target = QueriedNode[1]
            ELSE timetable.links[i].source = QueriedNode[1] /\ timetable.links[i].target = 0}

FirstMatchingLink == CHOOSE i \in MatchingLinks : \A j \in MatchingLinks : i <= j

\* C14: for every link weight w (zero and negative ones included), get_time
\* with lower_bound=True on a node n with a link n -> 0 of weight w returns
\* ztp - w, and with lower_bound=False and a link 0 -> n returns ztp + w.
C14_TimeFromLinkWeight ==
    (last.op = "get_time" /\ MatchingLinks # {}) =>
        LET w == timetable.links[FirstMatchingLink].weight
        IN last.result = Some(IF last.lower_bound THEN timetable.ztp - w
                              ELSE timetable.ztp + w)

\* C15: get_time returns no time exactly when no node carries the requested
\* tag or no link in the requested direction exists; when both exist it
\* returns a time.
C15_AbsentExactlyWhenNoNodeOrLink ==
    last.op = "get_time" =>
        (last.result = None <=> (QueriedNode = None \/ MatchingLinks = {}))

\* C16: with several links in the requested direction get_time answers from
\* the first one in list order alone: dropping the later matching links and
\* every link in the opposite direction (indeed every other link) leaves the
\* answer as it is.
C16_FirstMatchingLinkDecides ==
    last.op = "get_time" =>
        LET only == IF MatchingLinks = {} THEN << >>
                    ELSE <<timetable.links[FirstMatchingLink]>>
        IN last.result = get_time([timetable EXCEPT !.links = only],
                                  last.task_id, last.node_type, last.lower_bound)

\* get_time answered from the first of two matching links of different
\* weights, with a link of the opposite direction in the list before them
C16_Witness ==
    /\ last.op = "get_time"
    /\ last.result # None
    /\ \E i, j \in MatchingLinks :
         /\ i = FirstMatchingLink
         /\ i < j
         /\ timetable.links[i].weight # timetable.links[j].weight
         /\ timetable.links[j].weight # 0
         /\ \E k \in OppositeLinks :
              k < i /\ timetable.links[k].weight # timetable.links[i].weight

(* Reads over stores that hold documents failing validation *)

\* the archived document a get_archived_task call asked for, when there was one
ArchivedTaskRead ==
    /\ last.op = "get_archived_task"
    /\ last.args.task_id # None
    /\ last.args.task_id[1] \in DOMAIN last.pre_db.task_archive

\* C31: get_archived_task(id) never removes the record with that id from the
\* task archive, also when the archived record fails validation and is
\* deprecated during the read.
C31_ArchiveReadKeepsRecord ==
    ArchivedTaskRead => last.args.task_id[1] \in DOMAIN db.task_archive

\* get_archived_task on an archived record that validates returns that record
\* and leaves every store as it was
C31_ValidArchiveReadKeepsStore ==
    (ArchivedTaskRead /\ TaskValid(last.pre_db.task_archive[last.args.task_id[1]]))
    => /\ db = last.pre_db
       /\ last.raised = ""
       /\ last.result = Some(last.pre_db.task_archive[last.args.task_id[1]])

\* a get_archived_task call that read a record failing validation whose
\* status validates: the record was deprecated inside the read
C31_DeprecatedInRead ==
    /\ ArchivedTaskRead
    /\ ~TaskValid(last.pre_db.task_archive[last.args.task_id[1]])
    /\ last.raised = ""

\* C33: get_tasks_by_status(status) returns exactly the tasks whose
\* status.status is in the list, searching the live store and, when the list
\* holds a terminal status, the archive too; a task whose status is not in the
\* list is never returned.
C33_ReturnsExactlyTasksWithStatus ==
    (last.op = "get_tasks_by_status" /\ last.raised = "")
    => /\ last.result = get_tasks_by_status_Filtered(last.pre_db, last.args.status).result
       /\ \A k \in 1..Len(last.result) : last.result[k].status[1].status \in last.args.status

\* get_tasks_by_status returns every task of the stores it searched that was
\* valid before the call and has a status of the list
C33_NoMatchingTaskMissed ==
    (last.op = "get_tasks_by_status" /\ last.raised = "")
    => /\ \A id \in DOMAIN last.pre_db.task :
              (TaskValid(last.pre_db.task[id])
                  /\ last.pre_db.task[id].status[1].status \in last.args.status)
              => \E k \in 1..Len(last.result) : last.result[k] = last.pre_db.task[id]
       /\ \A id \in DOMAIN last.pre_db.task_archive :
              (TaskValid(last.pre_db.task_archive[id])
                  /\ last.pre_db.task_archive[id].status[1].status \in last.args.status)
              => \E k \in 1..Len(last.result) : last.result[k] = last.pre_db.task_archive[id]

\* a get_tasks_by_status call that returned a task with a status outside the list
C33_ReturnedOtherStatus ==
    /\ last.op = "get_tasks_by_status"
    /\ \E k \in 1..Len(last.result) : last.result[k].status[1].status \notin last.args.status

\* C34: get_all_tasks returns only valid tasks: a stored task that fails
\* validation is deprecated during the call and left out of the result, so
\* every returned task is still in the live store.
C34_AllTasksReturnsValidLiveTasks ==
    last.op = "get_all_tasks"
    => /\ \A k \in 1..Len(last.result) :
              /\ TaskValid(last.result[k])
              /\ last.result[k].task_id \in DOMAIN db.task
       /\ \A id \in DOMAIN last.pre_db.task :
              ~TaskValid(last.pre_db.task[id])
              => /\ id \notin DOMAIN db.task
                 /\ id \in DOMAIN db.task_archive
                 /\ \A k \in 1..Len(last.result) : last.result[k].task_id # id

\* every live task that fails validation has a status that validates
InvalidLiveTasksHaveValidStatus(d) ==
    \A id \in DOMAIN d.task :
        ~TaskValid(d.task[id]) => StatusValid(d.task[id].status[1])

\* get_all_tasks behaves as C34 says when the status of every task that fails
\* validation validates
C34_HoldsWhenStatusesValidate ==
    (last.op = "get_all_tasks" /\ InvalidLiveTasksHaveValidStatus(last.pre_db))
    => C34_AllTasksReturnsValidLiveTasks

\* a get_all_tasks call over a live task whose status fails validation
C34_InvalidStatusStaysLive ==
    /\ last.op = "get_all_tasks"
    /\ \E id \in DOMAIN last.pre_db.task :
          /\ ~StatusValid(last.pre_db.task[id].status[1])
          /\ id \in DOMAIN db.task

(* The progress tracker *)

\* a call of TaskProgress.update on the tracker in memory that did not raise
ProgressUpdated == last.op = "progress_update" /\ last.raised = ""

\* the tracker before and after the last call on the object in memory
TrackerBefore == last.pre_mem[1].status[1].progress[1]
TrackerNow == mem[1].status[1].progress[1]

\* the place in the list of the action the last call reported
ReportedIndex(actions) == get_action_index(actions, last.args.action_id[1])

\* C35: when TaskProgress.update reports FINISHED for an action that is not the
\* last of the progress list, current_action becomes the id of the action
\* following it and the progress record of the finished action is archived
\* (in "action_progress_archive", not in "action_progress"); when the finished
\* action is the last one, or the reported status is not FINISHED,
\* current_action is left unchanged.
C35_FinishedAdvancesCurrentAction ==
    ProgressUpdated
    => IF last.args.action_status = FINISHED
          /\ ReportedIndex(TrackerBefore.actions) < Len(TrackerBefore.actions)
       THEN /\ TrackerNow.current_action =
                  Some(TrackerBefore.actions[ReportedIndex(TrackerBefore.actions) + 1].action_id)
            /\ last.args.action_id[1] \in DOMAIN db.action_progress_archive
            /\ db.action_progress_archive[last.args.action_id[1]].status = FINISHED
            /\ last.args.action_id[1] \notin DOMAIN db.action_progress
       ELSE TrackerNow.current_action = TrackerBefore.current_action

\* FINISHED was reported for an action that is not the last of the list, and
\* the action that follows was not the current one before
C35_Witness ==
    /\ ProgressUpdated
    /\ last.args.action_status = FINISHED
    /\ ReportedIndex(TrackerBefore.actions) < Len(TrackerBefore.actions)
    /\ TrackerNow.current_action # TrackerBefore.current_action

\* FINISHED was reported for the last action of a list of several
C35_LastActionFinished ==
    /\ ProgressUpdated
    /\ last.args.action_status = FINISHED
    /\ Len(TrackerBefore.actions) > 1
    /\ ReportedIndex(TrackerBefore.actions) = Len(TrackerBefore.actions)

\* the progress record of the action that becomes current is not archived by
\* the report that finished the action before it
C35_NextRecordNotArchived ==
    (ProgressUpdated /\ last.args.action_status = FINISHED
        /\ ReportedIndex(TrackerBefore.actions) < Len(TrackerBefore.actions))
    => \A id \in DOMAIN db.action_progress_archive :
           id = last.args.action_id[1] \/ id \in DOMAIN last.pre_db.action_progress_archive

\* the list of progress records update_progress starts from: the one stored
\* with the status, which refresh_from_db loads
StoredTracker == last.pre_db.task_status[last.pre_mem[1].task_id].progress

\* update_progress returned, and found no progress stored with the status
ProgressInitialized ==
    /\ last.op = "update_progress"
    /\ last.raised \in {"", "TypeError"}
    /\ StoredTracker = None

\* update_progress returned, and found progress stored with the status
ProgressReported ==
    /\ last.op = "update_progress"
    /\ last.raised = ""
    /\ StoredTracker # None

\* the record of the reported action changed as reported, every other record
\* as before
OnlyReportedChanged(before, now) ==
    /\ ReportedIndex(before) # 0
    /\ now = [before EXCEPT ![ReportedIndex(before)] =
                 progress_reported(@, last.args.action_status, last.args.kwargs)]

\* the list initialize() builds from the first plan stage
InitialRecords == [k \in 1..Len(last.pre_mem[1].plan[1].actions) |->
                      ActionProgress_new(last.pre_mem[1].plan[1].actions[k])]

\* C36: the first update_progress builds a progress list with one entry per
\* action of plan[0], in plan order, each PLANNED; every later update for an
\* action id of the list changes only that entry's status and start and finish
\* time and keeps the length, the order and the action ids of the list.
C36_ProgressListShape ==
    /\ ProgressInitialized
       => /\ Len(db.task_status[mem[1].task_id].progress[1].actions) = Len(InitialRecords)
          /\ IF last.raised = "TypeError"
             THEN db.task_status[mem[1].task_id].progress[1].actions = InitialRecords
             ELSE /\ OnlyReportedChanged(InitialRecords, TrackerNow.actions)
                  /\ db.task_status[mem[1].task_id].progress = mem[1].status[1].progress
    /\ ProgressReported
       => IF ReportedIndex(StoredTracker[1].actions) = 0
          THEN FALSE
          ELSE /\ OnlyReportedChanged(StoredTracker[1].actions, TrackerNow.actions)
               /\ db.task_status[mem[1].task_id].progress = mem[1].status[1].progress
    /\ ProgressUpdated
       => OnlyReportedChanged(TrackerBefore.actions, TrackerNow.actions)

\* a later update_progress for the action in the middle of a list of three
\* records, another of which an earlier report had changed
C36_Witness ==
    /\ ProgressReported
    /\ Len(TrackerNow.actions) = 3
    /\ ReportedIndex(TrackerNow.actions) = 2
    /\ TrackerNow.actions[2] # InitialRecords[2]
    /\ \E k \in {1, 3} : TrackerNow.actions[k] # InitialRecords[k]

\* a first update_progress that built the list and reported on its second action
C36_InitializedWitness ==
    /\ ProgressInitialized
    /\ last.raised = ""
    /\ Len(TrackerNow.actions) = 3
    /\ ReportedIndex(TrackerNow.actions) = 2

(* Parent tasks *)

\* the archived ancestors of a task: parent, grandparent, ..., up to the first
\* one that is not in the archive
RECURSIVE ArchivedAncestors(_, _)
ArchivedAncestors(d, t) ==
    IF t.parent_task_id = None THEN << >>
    ELSE IF t.parent_task_id[1] \notin DOMAIN d.task_archive THEN << >>
    ELSE <<d.task_archive[t.parent_task_id[1]]>>
            \o ArchivedAncestors(d, d.task_archive[t.parent_task_id[1]])

\* C37: get_parent_tasks() without an argument returns exactly the chain of
\* the task's archived ancestors, parent first, up to the first ancestor that
\* is not in the archive, whatever get_parent_tasks calls were made before.
C37_ParentChainIndependent ==
    (last.op = "get_parent_tasks" /\ last.raised = "")
    => last.result = Some(ArchivedAncestors(last.pre_db, last.pre_mem[1]))

\* every get_parent_tasks() call returns the list the calls before it had
\* filled, followed by the chain of the task's archived ancestors
C37_ChainAppendedToEarlierResults ==
    [][(last'.op = "get_parent_tasks" /\ last'.n # last.n)
          => /\ last'.result = Some(default_tasks \o ArchivedAncestors(db, last'.pre_mem[1]))
             /\ default_tasks' = default_tasks \o ArchivedAncestors(db, last'.pre_mem[1])
             /\ db' = db]_vars

\* a get_parent_tasks() call on a task with two archived ancestors, after an
\* earlier call had returned tasks
C37_SecondCallWitness ==
    /\ last.op = "get_parent_tasks"
    /\ Len(ArchivedAncestors(last.pre_db, last.pre_mem[1])) = 2
    /\ Len(last.result[1]) > 2

(* The receive queue and the callbacks of the MQTT and Zyre interfaces *)

MessageIds(seq) == {seq[k].id : k \in 1..Len(seq)}

\* the ids of a sequence of messages increase: arrival order, none twice
InArrivalOrder(seq) == \A j, k \in 1..Len(seq) : j < k => seq[j].id < seq[k].id

\* every message put in the queue is waiting in the queue or was taken by
\* process_msgs, once and in arrival order
QueueDrainedOnceInOrder ==
    /\ InArrivalOrder(api.handled)
    /\ InArrivalOrder(api.queue)
    /\ \A j \in 1..Len(api.handled), k \in 1..Len(api.queue) :
           api.handled[j].id < api.queue[k].id
    /\ MessageIds(api.handled) \cup MessageIds(api.queue) = api.accepted
    /\ api.returned => api.queue = << >>

\* C38: process_msgs drains the receive queue in arrival order and handles
\* every queued message exactly once: a message with a registered callback is
\* passed to it, a message without one is logged and discarded, none is queued
\* again, the queue is empty when process_msgs returns and nothing arrived,
\* and messages queued while process_msgs runs are neither lost nor handled
\* twice.
C38_EveryMessageHandledOnce ==
    /\ QueueDrainedOnceInOrder
    /\ \A k \in 1..Len(api.handled) :
           api.handled[k].outcome =
               IF api.handled[k].registered # "" THEN "called" ELSE "no callback"

\* C38 holds for the messages whose payload is a JSON document, which are
\* all messages of a Zyre interface
C38_HoldsForJsonPayloads ==
    /\ QueueDrainedOnceInOrder
    /\ \A k \in 1..Len(api.handled) :
           api.handled[k].payload = "{}"
           => api.handled[k].outcome =
                  IF api.handled[k].registered # "" THEN "called" ELSE "no callback"
    /\ api.kind = "zyre" => C38_EveryMessageHandledOnce

\* a message arrived while process_msgs was running and was passed to its
\* callback by that same call, after a message queued before the call
C38_ArrivedWhileRunning ==
    /\ api.runs = 1
    /\ api.returned
    /\ Len(api.handled) >= 2
    /\ ~api.handled[1].while_running
    /\ api.handled[2].while_running
    /\ \A k \in 1..Len(api.handled) : api.handled[k].outcome = "called"

\* process_msgs took a message with a registered callback whose payload is
\* no JSON document
C38_PayloadNotJson ==
    \E k \in 1..Len(api.handled) :
        /\ api.handled[k].outcome = "JSONDecodeError"
        /\ api.handled[k].registered # ""

\* C39: the function called for a message is the one most recently registered
\* for the subtopic (MQTT) or message type (Zyre) of the message, also when
\* different functions of one name are registered under different keys.
C39_DispatchedToRegistered ==
    \A k \in 1..Len(api.handled) :
        api.handled[k].outcome = "called" => api.handled[k].by = api.handled[k].registered

\* the function called for a message has the name of the function most
\* recently registered for the key of the message
C39_DispatchedByName ==
    \A k \in 1..Len(api.handled) :
        api.handled[k].outcome = "called"
        => FunctionName(api.handled[k].by) = FunctionName(api.handled[k].registered)

\* a message was passed to a function of the registered name that is not the
\* function registered for its key
C39_OtherFunctionCalled ==
    \E k \in 1..Len(api.handled) :
        /\ api.handled[k].outcome = "called"
        /\ api.handled[k].by # api.handled[k].registered

====
